---- MODULE Spec2Model ----
(***************************************************************************)
(* Delivery-Bot: the pipeline run lifecycle (api/pipeline_runner.py), the  *)
(* in-memory store it writes through (api/storage.py) and the trigger      *)
(* endpoint (api/main.py).                                                 *)
(*                                                                         *)
(* Conventions.  An Optional[T] is a set with at most one element: {} is   *)
(* None.  A log line is the sequence of the literal and formatted          *)
(* fragments of its f-string, in order, so its first fragment is the       *)
(* line's fixed leading text.  The store keeps REFERENCES: _runs maps a    *)
(* run id to a handle into the heap of Run objects, and the executor       *)
(* mutates the object behind the handle in place.                          *)
(*                                                                         *)
(* Specifications.  Spec: run_pipeline coroutines on the event loop, with  *)
(* each handler taken as one step.  WritersSpec: the writer threads of     *)
(* test_concurrent_run_updates.  StoreSpec: the store's methods called     *)
(* directly.  ApiSpec: the request handlers statement by statement, on two *)
(* threads.  TriggerSpec: create and trigger with every GitHub outcome,    *)
(* and the loop running what was scheduled.  OptionsSpec: run_pipeline on  *)
(* pipelines that differ in the step options.  SnapshotSpec and            *)
(* CreatorsSpec: the store's pipeline methods on objects, and the threads  *)
(* of the store's concurrency tests.  EmptyStepsSpec: create and trigger   *)
(* of a pipeline without steps.  RequestSpec: one GitHub API request with  *)
(* its retries.  GitHubSpec: the integration manager and its               *)
(* collaborators.  LifecycleSpec: create, trigger, update and delete with  *)
(* the loop, under fairness.                                               *)
(***************************************************************************)
EXTENDS Integers, Sequences, FiniteSets, TLC

VARIABLES
    pipelines,   \* InMemoryDB._pipelines: pipeline id -> Pipeline
    nPipelines,  \* Pipelines constructed so far (uuid4 ids are fresh)
    heap,        \* the Run objects: handle -> Run
    runs,        \* InMemoryDB._runs: run id -> handle
    tasks,       \* run_pipeline coroutines, in creation order
    current,     \* Optional: the task the event loop is executing now
    clock,       \* the latest value datetime.utcnow() returned
    requests,    \* the calls in flight: thread -> the call's frame
    logger       \* the records GitHubIntegrationManager gave the logger

vars == <<pipelines, nPipelines, heap, runs, tasks, current, clock, requests,
          logger>>

(***************************************************************************)
(* Bounds                                                                  *)
(***************************************************************************)
MaxPipelines == 1
MaxRuns == 2
MaxClock == 2

(***************************************************************************)
(* models.py                                                               *)
(***************************************************************************)
StepType == {"run", "build", "deploy"}

RunStatus == {"pending", "running", "succeeded", "failed", "cancelled"}

\* Python truthiness of an Optional[str]: None and "" are falsy.
Truthy(opt) == opt # {} /\ opt # {""}

\* `opt or default`
OrDefault(opt, default) == IF Truthy(opt) THEN CHOOSE v \in opt : TRUE ELSE default

\* timeout_seconds: int = Field(300, ge=1, le=3600)
DefaultTimeout == 300

\* Step(...): timeout_seconds and continue_on_error take their defaults.
Step(name, type, command, dockerfile, ecr_repo, manifest) ==
    [name |-> name, type |-> type, command |-> command,
     dockerfile |-> dockerfile, ecr_repo |-> ecr_repo, manifest |-> manifest,
     timeout_seconds |-> DefaultTimeout, continue_on_error |-> FALSE]

\* The same step with the two execution options given explicitly.
WithOptions(step, timeout_seconds, continue_on_error) ==
    [step EXCEPT !.timeout_seconds = timeout_seconds,
                 !.continue_on_error = continue_on_error]

ValidateByType_Lenient(s) ==
    /\ s.type \in StepType
    /\ ~(s.type = "run" /\ ~Truthy(s.command))
    /\ ~(s.type = "build" /\ (~Truthy(s.dockerfile) /\ ~Truthy(s.ecr_repo)))
    /\ ~(s.type = "deploy" /\ ~Truthy(s.manifest))

\* Step._validate_by_type: TRUE when the model validator accepts the step.
ValidateByType(s) ==
    /\ s.type \in StepType
    /\ ~(s.type = "run" /\ ~Truthy(s.command))
    /\ ~(s.type = "build" /\ (~Truthy(s.dockerfile) \/ ~Truthy(s.ecr_repo)))
    /\ ~(s.type = "deploy" /\ ~Truthy(s.manifest))

LintStep == Step("lint", "run", {"make lint"}, {}, {}, {})
BuildStep == Step("build", "build", {}, {"Dockerfile"}, {"app/backend"}, {})
DeployStep == Step("deploy", "deploy", {}, {}, {}, {"k8s/deploy.yaml"})
\* `name: str` accepts the empty string.
NamelessStep == Step("", "run", {"echo"}, {}, {}, {})
\* Objects that never went through the validator (test_pipeline_runner.py
\* MockStep, model_construct, attribute assignment).
UnknownStep == Step("invalid", "unknown", {}, {}, {}, {})
NoCommandStep == Step("sh", "run", {}, {}, {}, {})

\* Pipeline(...): only the fields the executor reads.
Pipeline(id, steps) == [id |-> id, steps |-> steps]

\* A Pipeline with the two timestamps, which the store and the handlers
\* read and write; created_at and updated_at default to utcnow().
Timestamped(pipeline, created_at, updated_at) ==
    [id |-> pipeline.id, steps |-> pipeline.steps,
     created_at |-> created_at, updated_at |-> updated_at]

\* Run(pipeline_id=...): the field defaults of the model.
Run(id, pipeline_id) ==
    [id |-> id, pipeline_id |-> pipeline_id, status |-> "pending",
     started_at |-> {}, finished_at |-> {}, current_step |-> {},
     logs |-> << >>]

\* str(uuid.uuid4()): a fresh id per constructed object.
PipelineId(n) == "p" \o ToString(n)
RunId(h) == "r" \o ToString(h)

(***************************************************************************)
(* storage.py: every method body runs under the store's RLock, so each is  *)
(* one atomic operation on the dictionary.                                 *)
(***************************************************************************)
Put(store, id, v) ==
    [k \in DOMAIN store \cup {id} |-> IF k = id THEN v ELSE store[k]]

create_pipeline_Reset(store, pipeline) == Put(<< >>, pipeline.id, pipeline)

\* self._pipelines[pipeline.id] = pipeline
create_pipeline(store, pipeline) == Put(store, pipeline.id, pipeline)

get_pipeline(store, pipeline_id) ==
    IF pipeline_id \in DOMAIN store THEN {store[pipeline_id]} ELSE {}

Restamped_Kept(updated, now) == updated

\* updated.updated_at = datetime.utcnow()
Restamped(updated, now) == [updated EXCEPT !.updated_at = now]

update_pipeline_Upsert(store, pipeline_id, updated, now) ==
    Put(store, pipeline_id, Restamped(updated, now))

update_pipeline(store, pipeline_id, updated, now) ==
    IF pipeline_id \notin DOMAIN store THEN store
    ELSE [store EXCEPT ![pipeline_id] = Restamped(updated, now)]

\* What update_pipeline returns: None, or the object it stored.
update_pipeline_returns(store, pipeline_id, updated, now) ==
    IF pipeline_id \notin DOMAIN store THEN {} ELSE {Restamped(updated, now)}

\* self._pipelines.pop(pipeline_id, None)
delete_pipeline(store, pipeline_id) ==
    [k \in DOMAIN store \ {pipeline_id} |-> store[k]]

\* What delete_pipeline returns.
delete_pipeline_returns(store, pipeline_id) == pipeline_id \in DOMAIN store

create_run(store, id, h) == Put(store, id, h)

\* The reference stored under run_id, None when absent.
get_run(store, run_id) ==
    IF run_id \in DOMAIN store THEN {store[run_id]} ELSE {}

update_run(store, run_id, h) ==
    IF run_id \notin DOMAIN store THEN store ELSE [store EXCEPT ![run_id] = h]

\* What update_run returns: None, or the reference it stored.
update_run_returns(store, run_id, h) ==
    IF run_id \notin DOMAIN store THEN {} ELSE {h}

\* What a caller of get_run reads through the returned reference right now.
ReadRun(run_id) == {heap[h] : h \in get_run(runs, run_id)}

(***************************************************************************)
(* pipeline_runner.py: validation.  Each returns the Optional message of   *)
(* the ValueError it raises.                                               *)
(***************************************************************************)
StepError(s, i) ==
    IF s.name = "" THEN {<<"Step ", ToString(i), " must have a name">>}
    ELSE IF s.type = "" THEN {<<"Step ", ToString(i), " must have a type">>}
    ELSE IF s.type = "run" /\ ~Truthy(s.command)
         THEN {<<"Run step ", ToString(i), " must have a command">>}
    ELSE {}

validate_pipeline_AllowsEmpty(popt) ==
    IF popt = {} THEN {<<"Pipeline cannot be None">>}
    ELSE LET pipeline == CHOOSE p \in popt : TRUE
             bad == {i \in 1..Len(pipeline.steps) :
                        StepError(pipeline.steps[i], i - 1) # {}}
         IN  IF pipeline.id = "" THEN {<<"Pipeline must have an ID">>}
             ELSE IF bad # {}
                 THEN LET first == CHOOSE i \in bad : \A j \in bad : i <= j
                      IN  StepError(pipeline.steps[first], first - 1)
             ELSE {}

validate_pipeline(popt) ==
    IF popt = {} THEN {<<"Pipeline cannot be None">>}
    ELSE LET pipeline == CHOOSE p \in popt : TRUE
             bad == {i \in 1..Len(pipeline.steps) :
                        StepError(pipeline.steps[i], i - 1) # {}}
         IN  IF pipeline.steps = << >>
                 THEN {<<"Pipeline must have at least one step">>}
             ELSE IF pipeline.id = "" THEN {<<"Pipeline must have an ID">>}
             ELSE IF bad # {}
                 THEN LET first == CHOOSE i \in bad : \A j \in bad : i <= j
                      IN  StepError(pipeline.steps[first], first - 1)
             ELSE {}

validate_run_NoneOnly(ropt) ==
    IF ropt = {} THEN {<<"Run cannot be None">>} ELSE {}

validate_run(ropt) ==
    IF ropt = {} THEN {<<"Run cannot be None">>}
    ELSE LET run == CHOOSE r \in ropt : TRUE
         IN  IF run.id = "" THEN {<<"Run must have an ID">>}
             ELSE IF run.pipeline_id = "" THEN {<<"Run must have a pipeline ID">>}
             ELSE {}

\* run_pipeline lines 218-219: validate_pipeline first, then validate_run.
Precondition(popt, ropt) ==
    IF validate_pipeline(popt) # {} THEN validate_pipeline(popt)
    ELSE validate_run(ropt)

(***************************************************************************)
(* pipeline_runner.py: the log lines of simulate_step and run_pipeline.    *)
(***************************************************************************)
\* {value!r} of an Optional[str]
Repr(opt) == IF opt = {} THEN <<"None">> ELSE <<"'", CHOOSE v \in opt : TRUE, "'">>

StartLine(step, index) ==
    <<"[step ", ToString(index + 1), "] Starting '", step.name,
      "' of type '", step.type, "'">>

ActionLine(step) ==
    IF step.type = "run"
        THEN <<"Running shell command: ">> \o Repr(step.command)
    ELSE IF step.type = "build"
        THEN <<"Building Docker image from ",
               OrDefault(step.dockerfile, "Dockerfile"),
               " and pushing to ", OrDefault(step.ecr_repo, "ecr://example")>>
    ELSE <<"Applying manifest ", OrDefault(step.manifest, "k8s/deploy.yaml"),
           " to cluster">>

FinishLine(step) ==
    IF step.type = "run" THEN <<"Command finished with exit code 0">>
    ELSE IF step.type = "build" THEN <<"Image built and pushed successfully">>
    ELSE <<"Deployment applied">>

CompletedLine(step) == <<"Step '", step.name, "' completed successfully">>

UnknownLine == <<"Unknown step type encountered">>

UnknownTypeError(step) == <<"Unknown step type: ", step.type>>

StepFailedLine(step, exc) == <<"Step '", step.name, "' failed: ">> \o exc

ErrorLine_Unprefixed(exc) == exc

ErrorLine(exc) == <<"ERROR: ">> \o exc

QueuedLine == <<"Pipeline execution queued (no async context available)">>

(***************************************************************************)
(* pipeline_runner.py: the assignments of run_pipeline and simulate_step   *)
(* to the Run object.                                                      *)
(***************************************************************************)
\* datetime.utcnow(): wall-clock time, not before the value last read.
utcnow == clock..MaxClock

Running(run) == [run EXCEPT !.status = "running"]

Started(run, now) == [run EXCEPT !.started_at = {now}]

AtStep_Late(run, index) ==
    [run EXCEPT !.current_step = IF index = 0 THEN {} ELSE {index - 1}]

AtStep(run, index) == [run EXCEPT !.current_step = {index}]

Logged_Buffered(run, msg) == run

Logged_Replace(run, msg) == [run EXCEPT !.logs = <<msg>>]

Logged_Overwrite(run, msg) ==
    [run EXCEPT !.logs = IF @ = << >> THEN <<msg>>
                         ELSE [@ EXCEPT ![Len(@)] = msg]]

\* run.logs.append(msg)
Logged(run, msg) == [run EXCEPT !.logs = Append(@, msg)]

Succeeded(run) == [run EXCEPT !.status = "succeeded"]

Failed_Cancelled(run) == [run EXCEPT !.status = "cancelled"]

Failed(run) == [run EXCEPT !.status = "failed"]

Finished_Restamp(run, now) ==
    [run EXCEPT !.finished_at = {now}, !.started_at = {now}]

Finished(run, now) == [run EXCEPT !.finished_at = {now}]

(***************************************************************************)
(* A run_pipeline coroutine.  pc is the statement it executes next, idx    *)
(* the zero-based index of the for loop, exc the exception in flight or    *)
(* caught.                                                                 *)
(***************************************************************************)
Task(popt, ropt) ==
    [pipeline |-> popt, run |-> ropt, pc |-> "created", idx |-> 0, exc |-> {}]

PipelineOf(task) == CHOOSE p \in task.pipeline : TRUE

Target_Shared(task) == CHOOSE h \in DOMAIN heap : TRUE

\* The Run object the coroutine was handed: every assignment goes to it.
Target(task) == CHOOSE h \in task.run : TRUE

StepAt_Reversed(pipeline, idx) == pipeline.steps[Len(pipeline.steps) - idx]

\* enumerate(pipeline.steps)
StepAt(pipeline, idx) == pipeline.steps[idx + 1]

CurrentStep(task) == StepAt(PipelineOf(task), task.idx)

\* The for loop's next iteration, or the statement after the loop.
AfterStep(task) ==
    IF task.idx + 1 < Len(PipelineOf(task).steps)
        THEN [task EXCEPT !.pc = "set_current_step", !.idx = @ + 1]
        ELSE [task EXCEPT !.pc = "set_succeeded"]

OnStepError_Continue(task) ==
    IF task.idx + 1 < Len(PipelineOf(task).steps)
        THEN [task EXCEPT !.pc = "set_current_step", !.idx = @ + 1]
        ELSE [task EXCEPT !.pc = "run_except"]

OnStepError_Honoured(task) ==
    IF CurrentStep(task).continue_on_error
        THEN AfterStep(task)
        ELSE [task EXCEPT !.pc = "run_except"]

\* simulate_step's `raise` lands in run_pipeline's `except Exception`.
OnStepError(task) == [task EXCEPT !.pc = "run_except"]

Ready(t) == t \in 1..Len(tasks) /\ current = {t}

Mutate(t, run) == heap' = [heap EXCEPT ![Target(tasks[t])] = run]

Goto(t, pc) == tasks' = [tasks EXCEPT ![t].pc = pc]

Obj(t) == heap[Target(tasks[t])]

(***************************************************************************)
(* Inputs                                                                  *)
(***************************************************************************)
\* Step lists a POST /pipelines body can carry: every step passed
\* Step._validate_by_type.
RequestSteps == {<< >>, <<LintStep, BuildStep>>, <<NamelessStep>>}

\* Arguments of a direct call of run_pipeline(pipeline, run), as the tests
\* and library callers make it.
GoodPipeline == Pipeline("test-pipeline", <<LintStep, BuildStep, DeployStep>>)

PipelineArgs ==
    { {},
      {Pipeline("test-pipeline", << >>)},
      {Pipeline("", <<LintStep>>)},
      {Pipeline("test-pipeline", <<LintStep, NoCommandStep>>)},
      {Pipeline("test-pipeline", <<LintStep, UnknownStep, DeployStep>>)},
      {GoodPipeline} }

RunArgs == {"none", "fresh", "no_id", "no_pipeline_id"}

\* Every pipeline with a fresh stored Run, and every kind of Run with the
\* pipeline that passes validation.
CallArgs ==
    {<<popt, "fresh">> : popt \in PipelineArgs}
        \cup {<<{GoodPipeline}, kind>> : kind \in RunArgs}

Init ==
    /\ pipelines = << >>
    /\ nPipelines = 0
    /\ heap = << >>
    /\ runs = << >>
    /\ tasks = << >>
    /\ current = {}
    /\ clock = 0
    /\ requests = << >>
    /\ logger = {}

(***************************************************************************)
(* main.py handlers                                                        *)
(***************************************************************************)
\* POST /pipelines
CreatePipeline(steps) ==
    /\ nPipelines < MaxPipelines
    /\ \A i \in 1..Len(steps) : ValidateByType(steps[i])
    /\ nPipelines' = nPipelines + 1
    /\ pipelines' = create_pipeline(pipelines, Pipeline(PipelineId(nPipelines + 1), steps))
    /\ UNCHANGED <<heap, runs, tasks, current, clock, requests, logger>>

\* POST /pipelines/{pipeline_id}/trigger.  loop: whether the calling thread
\* has a running event loop (asyncio.get_running_loop() raises otherwise).
TriggerPipeline(pipeline_id, loop) ==
    /\ Len(heap) < MaxRuns
    /\ get_pipeline(pipelines, pipeline_id) # {}
    /\ LET h == Len(heap) + 1
           run == Run(RunId(h), pipeline_id)
       IN  /\ runs' = create_run(runs, run.id, h)
           /\ IF loop
                THEN /\ heap' = Append(heap, run)
                     /\ tasks' = Append(tasks, Task(get_pipeline(pipelines, pipeline_id), {h}))
                ELSE /\ heap' = Append(heap, Logged(run, QueuedLine))
                     /\ tasks' = tasks
    /\ UNCHANGED <<pipelines, nPipelines, current, clock, requests, logger>>

\* A caller builds a Run, stores it with create_run and schedules
\* run_pipeline(pipeline, run) on the loop; or passes run=None.
CallRunPipeline(popt, kind) ==
    /\ Len(tasks) < MaxRuns
    /\ Len(heap) < MaxRuns
    /\ LET h == Len(heap) + 1
           pid == IF popt = {} \/ kind = "no_pipeline_id" THEN ""
                  ELSE (CHOOSE p \in popt : TRUE).id
           run == Run(IF kind = "no_id" THEN "" ELSE RunId(h),
                      IF kind = "no_pipeline_id" THEN ""
                      ELSE IF pid = "" THEN "test-pipeline" ELSE pid)
       IN  IF kind = "none"
             THEN /\ tasks' = Append(tasks, Task(popt, {}))
                  /\ UNCHANGED <<heap, runs>>
             ELSE /\ heap' = Append(heap, run)
                  /\ runs' = create_run(runs, run.id, h)
                  /\ tasks' = Append(tasks, Task(popt, {h}))
    /\ UNCHANGED <<pipelines, nPipelines, current, clock, requests, logger>>

(***************************************************************************)
(* run_pipeline, statement by statement.  The event loop runs one          *)
(* coroutine at a time and switches only at `await asyncio.sleep`; request *)
(* handler threads may read the store between any two statements.          *)
(***************************************************************************)
\* The loop starts the coroutine: lines 218-219.  A failed precondition
\* raises out of run_pipeline.
Start(t) ==
    /\ t \in 1..Len(tasks) /\ current = {} /\ tasks[t].pc = "created"
    /\ LET err == Precondition(tasks[t].pipeline, {heap[h] : h \in tasks[t].run})
       IN  IF err # {}
             THEN /\ tasks' = [tasks EXCEPT ![t].pc = "raised", ![t].exc = err]
                  /\ current' = {}
             ELSE /\ Goto(t, "set_running")
                  /\ current' = {t}
    /\ UNCHANGED <<pipelines, nPipelines, heap, runs, clock, requests, logger>>

\* line 221
SetRunning(t) ==
    /\ Ready(t) /\ tasks[t].pc = "set_running"
    /\ Mutate(t, Running(Obj(t)))
    /\ Goto(t, "stamp_started")
    /\ UNCHANGED <<pipelines, nPipelines, runs, current, clock, requests, logger>>

\* line 222
StampStarted(t) ==
    /\ Ready(t) /\ tasks[t].pc = "stamp_started"
    /\ \E now \in utcnow :
          /\ Mutate(t, Started(Obj(t), now))
          /\ clock' = now
    /\ Goto(t, "persist_start")
    /\ UNCHANGED <<pipelines, nPipelines, runs, current, requests, logger>>

\* line 223; the for loop is entered (the step list is not empty).
PersistStart(t) ==
    /\ Ready(t) /\ tasks[t].pc = "persist_start"
    /\ runs' = update_run(runs, Obj(t).id, Target(tasks[t]))
    /\ Goto(t, "set_current_step")
    /\ UNCHANGED <<pipelines, nPipelines, heap, current, clock, requests, logger>>

\* simulate_step line 155
SetCurrentStep(t) ==
    /\ Ready(t) /\ tasks[t].pc = "set_current_step"
    /\ Mutate(t, AtStep(Obj(t), tasks[t].idx))
    /\ Goto(t, "log_start")
    /\ UNCHANGED <<pipelines, nPipelines, runs, current, clock, requests, logger>>

\* log(msg), lines 148-151: append, then update_run of the same object.
Log(t, msg) ==
    /\ Mutate(t, Logged(Obj(t), msg))
    /\ runs' = update_run(runs, Obj(t).id, Target(tasks[t]))

\* lines 156-158, then the dispatch on step.type
LogStart(t) ==
    /\ Ready(t) /\ tasks[t].pc = "log_start"
    /\ Log(t, StartLine(CurrentStep(tasks[t]), tasks[t].idx))
    /\ Goto(t, IF CurrentStep(tasks[t]).type \in StepType
                 THEN "log_action" ELSE "log_unknown")
    /\ UNCHANGED <<pipelines, nPipelines, current, clock, requests, logger>>

\* lines 171, 178, 186
LogAction(t) ==
    /\ Ready(t) /\ tasks[t].pc = "log_action"
    /\ Log(t, ActionLine(CurrentStep(tasks[t])))
    /\ Goto(t, "sleep")
    /\ UNCHANGED <<pipelines, nPipelines, current, clock, requests, logger>>

Sleep_Blocking(t) ==
    /\ Ready(t) /\ tasks[t].pc = "sleep"
    /\ Goto(t, "sleeping")
    /\ UNCHANGED <<pipelines, nPipelines, heap, runs, current, clock, requests,
                   logger>>

\* await asyncio.sleep(...): the coroutine gives the loop back.
Sleep(t) ==
    /\ Ready(t) /\ tasks[t].pc = "sleep"
    /\ Goto(t, "sleeping")
    /\ current' = {}
    /\ UNCHANGED <<pipelines, nPipelines, heap, runs, clock, requests, logger>>

\* The delay is over and the loop resumes the coroutine.
Wake(t) ==
    /\ t \in 1..Len(tasks) /\ current = {} /\ tasks[t].pc = "sleeping"
    /\ Goto(t, "log_finish")
    /\ current' = {t}
    /\ UNCHANGED <<pipelines, nPipelines, heap, runs, clock, requests, logger>>

\* lines 173, 182, 188
LogFinish(t) ==
    /\ Ready(t) /\ tasks[t].pc = "log_finish"
    /\ Log(t, FinishLine(CurrentStep(tasks[t])))
    /\ Goto(t, "log_completed")
    /\ UNCHANGED <<pipelines, nPipelines, current, clock, requests, logger>>

\* line 193, then the next iteration of the loop at line 234
LogCompleted(t) ==
    /\ Ready(t) /\ tasks[t].pc = "log_completed"
    /\ Log(t, CompletedLine(CurrentStep(tasks[t])))
    /\ tasks' = [tasks EXCEPT ![t] = AfterStep(@)]
    /\ UNCHANGED <<pipelines, nPipelines, current, clock, requests, logger>>

LogUnknown_Swallow(t) ==
    /\ Ready(t) /\ tasks[t].pc = "log_unknown"
    /\ Log(t, UnknownLine)
    /\ Goto(t, "log_completed")
    /\ UNCHANGED <<pipelines, nPipelines, current, clock, requests, logger>>

\* lines 191-192
LogUnknown(t) ==
    /\ Ready(t) /\ tasks[t].pc = "log_unknown"
    /\ Log(t, UnknownLine)
    /\ tasks' = [tasks EXCEPT ![t].pc = "step_except",
                              ![t].exc = {UnknownTypeError(CurrentStep(tasks[t]))}]
    /\ UNCHANGED <<pipelines, nPipelines, current, clock, requests, logger>>

\* simulate_step's handler, lines 194-208: log and re-raise
StepExcept(t) ==
    /\ Ready(t) /\ tasks[t].pc = "step_except"
    /\ Log(t, StepFailedLine(CurrentStep(tasks[t]), CHOOSE e \in tasks[t].exc : TRUE))
    /\ tasks' = [tasks EXCEPT ![t] = OnStepError(@)]
    /\ UNCHANGED <<pipelines, nPipelines, current, clock, requests, logger>>

\* line 248
RunExcept(t) ==
    /\ Ready(t) /\ tasks[t].pc = "run_except"
    /\ Mutate(t, Logged(Obj(t), ErrorLine(CHOOSE e \in tasks[t].exc : TRUE)))
    /\ Goto(t, "set_failed")
    /\ UNCHANGED <<pipelines, nPipelines, runs, current, clock, requests, logger>>

\* line 249
SetFailed(t) ==
    /\ Ready(t) /\ tasks[t].pc = "set_failed"
    /\ Mutate(t, Failed(Obj(t)))
    /\ Goto(t, "stamp_finished")
    /\ UNCHANGED <<pipelines, nPipelines, runs, current, clock, requests, logger>>

\* line 237
SetSucceeded(t) ==
    /\ Ready(t) /\ tasks[t].pc = "set_succeeded"
    /\ Mutate(t, Succeeded(Obj(t)))
    /\ Goto(t, "stamp_finished")
    /\ UNCHANGED <<pipelines, nPipelines, runs, current, clock, requests, logger>>

\* line 256
StampFinished(t) ==
    /\ Ready(t) /\ tasks[t].pc = "stamp_finished"
    /\ \E now \in utcnow :
          /\ Mutate(t, Finished(Obj(t), now))
          /\ clock' = now
    /\ Goto(t, "persist_end")
    /\ UNCHANGED <<pipelines, nPipelines, runs, current, requests, logger>>

\* line 257; run_pipeline returns normally.
PersistEnd(t) ==
    /\ Ready(t) /\ tasks[t].pc = "persist_end"
    /\ runs' = update_run(runs, Obj(t).id, Target(tasks[t]))
    /\ Goto(t, "done")
    /\ current' = {}
    /\ UNCHANGED <<pipelines, nPipelines, heap, clock, requests, logger>>

Execute(t) ==
    \/ Start(t)
    \/ SetRunning(t)
    \/ StampStarted(t)
    \/ PersistStart(t)
    \/ SetCurrentStep(t)
    \/ LogStart(t)
    \/ LogAction(t)
    \/ Sleep(t)
    \/ Wake(t)
    \/ LogFinish(t)
    \/ LogCompleted(t)
    \/ LogUnknown(t)
    \/ StepExcept(t)
    \/ RunExcept(t)
    \/ SetFailed(t)
    \/ SetSucceeded(t)
    \/ StampFinished(t)
    \/ PersistEnd(t)

Executor == \E t \in 1..Len(tasks) : Execute(t)

Next ==
    \/ \E steps \in RequestSteps : CreatePipeline(steps)
    \/ \E id \in DOMAIN pipelines, loop \in BOOLEAN : TriggerPipeline(id, loop)
    \/ \E args \in CallArgs : CallRunPipeline(args[1], args[2])
    \/ Executor

Spec == Init /\ [][Next]_vars

\* The event loop keeps running ready coroutines and timers fire.
FairSpec == Spec /\ WF_vars(Executor)

(***************************************************************************)
(* Properties                                                              *)
(***************************************************************************)
Terminal == {"succeeded", "failed"}

TaskIds == 1..Len(tasks)

HasRun(t) == tasks[t].run # {}

\* The Run object task t was handed, as stored in the task (not via Target).
RunOf(t) == heap[CHOOSE h \in tasks[t].run : TRUE]

IsStartLine(line) == line[1] = "[step "

IsStepFailedLine(line) == line[1] = "Step '" /\ line[3] = "' failed: "

IsErrorLine(line) == line[1] = "ERROR: "

Positions(log, Is(_)) == {j \in DOMAIN log : Is(log[j])}

\* C1: the status a reader finds in the store for a run id starts at pending
\* and from then on only moves pending -> running -> succeeded | failed:
\* never backwards, never past running, never to cancelled, never out of a
\* terminal status.
C1_StatusSequence ==
    [][\A id \in DOMAIN runs' :
          LET after == heap'[runs'[id]].status
          IN  IF id \in DOMAIN runs
                THEN LET before == heap[runs[id]].status
                     IN  \/ after = before
                         \/ <<before, after>> \in
                              {<<"pending", "running">>, <<"running", "succeeded">>,
                               <<"running", "failed">>}
                ELSE after = "pending"]_vars

C1_Witness ==
    /\ \E id \in DOMAIN runs : heap[runs[id]].status = "succeeded"
    /\ \E id \in DOMAIN runs : heap[runs[id]].status = "failed"

\* C2: every Run the trigger endpoint created eventually has a terminal
\* status.
Triggered(h) ==
    /\ h \in DOMAIN heap
    /\ heap[h].pipeline_id \in {PipelineId(n) : n \in 1..MaxPipelines}

C2_TriggeredRunTerminates ==
    \A h \in 1..MaxRuns :
        Triggered(h) ~> (h \in DOMAIN heap /\ heap[h].status \in Terminal)

\* C3: once a step has raised (its failure line is in the log), no start
\* line of any step follows, and the finished Run is failed.
C3_FailureShortCircuit ==
    \A t \in TaskIds :
        HasRun(t) =>
            \A f \in Positions(RunOf(t).logs, IsStepFailedLine) :
                /\ \A j \in Positions(RunOf(t).logs, IsStartLine) : j < f
                /\ tasks[t].pc = "done" => RunOf(t).status = "failed"

C3_Witness ==
    \E t \in TaskIds :
        /\ HasRun(t)
        /\ tasks[t].pc = "done"
        /\ tasks[t].idx + 1 < Len(PipelineOf(tasks[t]).steps)
        /\ Positions(RunOf(t).logs, IsStepFailedLine) # {}
        /\ RunOf(t).status = "failed"

\* C4: an error raised by a step never leaves run_pipeline; when
\* run_pipeline has returned the log holds exactly one "ERROR: <detail>"
\* line, as its last line, carrying the error's message, and the status is
\* failed.
C4_ErrorCaughtOnce ==
    \A t \in TaskIds :
        (HasRun(t) /\ Positions(RunOf(t).logs, IsStepFailedLine) # {}) =>
            /\ tasks[t].pc # "raised"
            /\ Cardinality(Positions(RunOf(t).logs, IsErrorLine)) <= 1
            /\ tasks[t].pc = "done" =>
                 /\ Positions(RunOf(t).logs, IsErrorLine) = {Len(RunOf(t).logs)}
                 /\ \E e \in tasks[t].exc :
                        RunOf(t).logs[Len(RunOf(t).logs)] = <<"ERROR: ">> \o e
                 /\ RunOf(t).status = "failed"
                 /\ current # {t}

C4_Witness ==
    \E t \in TaskIds :
        /\ HasRun(t)
        /\ tasks[t].pc = "done"
        /\ Positions(RunOf(t).logs, IsStepFailedLine) # {}
        /\ IsErrorLine(RunOf(t).logs[Len(RunOf(t).logs)])

\* C5: in every log the k-th start line is the start line of the k-th step
\* of the pipeline, and between two consecutive start lines lies the
\* completion line of the earlier step.
C5_StepOrder ==
    \A t \in TaskIds :
        HasRun(t) /\ tasks[t].pipeline # {} =>
            LET log == RunOf(t).logs
                steps == (CHOOSE p \in tasks[t].pipeline : TRUE).steps
                starts == Positions(log, IsStartLine)
                Rank(j) == Cardinality({i \in starts : i <= j})
            IN  \A j \in starts :
                    /\ Rank(j) <= Len(steps)
                    /\ log[j] = <<"[step ", ToString(Rank(j)), "] Starting '",
                                  steps[Rank(j)].name, "' of type '",
                                  steps[Rank(j)].type, "'">>
                    /\ Rank(j) > 1 =>
                         \E c \in 1..(j - 1) :
                            /\ log[c] = <<"Step '", steps[Rank(j) - 1].name,
                                          "' completed successfully">>
                            /\ \E i \in starts : i < c /\ Rank(i) = Rank(j) - 1

C5_Witness ==
    \E t \in TaskIds :
        /\ HasRun(t)
        /\ tasks[t].pc = "done"
        /\ Cardinality(Positions(RunOf(t).logs, IsStartLine)) = 3
        /\ RunOf(t).status = "succeeded"

IsPrefix(a, b) == Len(a) <= Len(b) /\ a = SubSeq(b, 1, Len(a))

\* C6: what a reader finds as the logs of a run id is, from one moment to
\* the next, extended at the end only: the earlier log is a prefix of the
\* later one.
C6_LogsAppendOnly ==
    [][\A id \in DOMAIN runs :
          /\ id \in DOMAIN runs'
          /\ IsPrefix(heap[runs[id]].logs, heap'[runs'[id]].logs)]_vars

C6_Witness ==
    \E id \in DOMAIN runs :
        /\ heap[runs[id]].status = "running"
        /\ Len(heap[runs[id]].logs) >= 5

\* C7: run_pipeline called with a null pipeline, an empty step list, an
\* empty pipeline id, a null run, an empty run id or an empty pipeline_id
\* raises to its caller; the Run keeps the state it was constructed with
\* and the step that raises writes nothing to the heap or the store.
BadArguments(t) ==
    \/ tasks[t].pipeline = {}
    \/ \E p \in tasks[t].pipeline : p.steps = << >> \/ p.id = ""
    \/ tasks[t].run = {}
    \/ \E h \in tasks[t].run : heap[h].id = "" \/ heap[h].pipeline_id = ""

Untouched(run) ==
    /\ run.status = "pending"
    /\ run.started_at = {}
    /\ run.finished_at = {}
    /\ run.current_step = {}
    /\ run.logs = << >>

C7_PreconditionLeavesRunUntouched ==
    /\ [](\A t \in TaskIds :
            BadArguments(t) =>
                /\ tasks[t].pc \in {"created", "raised"}
                /\ tasks[t].pc = "raised" => tasks[t].exc # {}
                /\ \A h \in tasks[t].run : Untouched(heap[h]))
    /\ [][\A t \in TaskIds :
            (BadArguments(t) /\ tasks'[t].pc # tasks[t].pc) =>
                /\ tasks'[t].pc = "raised"
                /\ heap' = heap /\ runs' = runs]_vars

C7_Witness ==
    /\ \E t \in TaskIds :
        /\ tasks[t].pc = "raised"
        /\ \E h \in tasks[t].run : heap[h].id = "" /\ Untouched(heap[h])
        /\ \E p \in tasks[t].pipeline : validate_pipeline({p}) = {}
    /\ \E t \in TaskIds :
        /\ tasks[t].pc = "raised"
        /\ \E p \in tasks[t].pipeline : p.steps = << >>

\* C8: whatever moment a reader calls get_run, a Run that is running,
\* succeeded or failed has started_at, and a Run that is succeeded or failed
\* has finished_at.
C8_NoTornRead ==
    \A id \in DOMAIN runs :
        \A run \in ReadRun(id) :
            /\ run.status \in {"running", "succeeded", "failed"} => run.started_at # {}
            /\ run.status \in Terminal => run.finished_at # {}

\* C9: started_at is written once, by the initialisation that takes the
\* Run from pending to running; finished_at is written once, when the
\* status is terminal; neither is overwritten, and finished_at >= started_at.
C9_TimestampsOnce ==
    /\ [](\A h \in DOMAIN heap :
            /\ heap[h].started_at # {} => heap[h].status # "pending"
            /\ heap[h].finished_at # {} =>
                 /\ heap[h].status \in Terminal
                 /\ \E s \in heap[h].started_at, f \in heap[h].finished_at : f >= s)
    /\ [][\A h \in DOMAIN heap :
            /\ heap'[h].started_at # heap[h].started_at =>
                 /\ heap[h].started_at = {}
                 /\ heap[h].status = "running" /\ heap'[h].status = "running"
                 /\ heap[h].current_step = {} /\ heap[h].logs = << >>
                 /\ heap[h].finished_at = {}
            /\ heap'[h].finished_at # heap[h].finished_at =>
                 /\ heap[h].finished_at = {}
                 /\ heap'[h].status \in Terminal]_vars

C9_Witness ==
    \E h \in DOMAIN heap :
        \E s \in heap[h].started_at, f \in heap[h].finished_at : f > s

\* C10: two runs of one pipeline on the same loop each end succeeded with
\* exactly the log of their own execution, and a Run's current_step and
\* logs change only in steps of the coroutine that was handed that Run.
FullLog(steps) ==
    LET F[k \in 0..Len(steps)] ==
            IF k = 0 THEN << >>
            ELSE F[k - 1] \o <<StartLine(steps[k], k - 1), ActionLine(steps[k]),
                               FinishLine(steps[k]), CompletedLine(steps[k])>>
    IN  F[Len(steps)]

Healthy(t) ==
    /\ ~BadArguments(t)
    /\ \A p \in tasks[t].pipeline :
          \A i \in 1..Len(p.steps) : ValidateByType(p.steps[i]) /\ p.steps[i].name # ""

C10_ConcurrentRunsIndependent ==
    /\ [](\A t, u \in TaskIds :
            (t # u /\ Healthy(t) /\ Healthy(u) /\ tasks[t].pipeline = tasks[u].pipeline) =>
                /\ tasks[t].pc # "raised"
                /\ tasks[t].pc = "done" =>
                     /\ RunOf(t).status = "succeeded"
                     /\ RunOf(t).logs = FullLog(PipelineOf(tasks[t]).steps)
                     /\ RunOf(t).current_step = {Len(PipelineOf(tasks[t]).steps) - 1})
    /\ [][\A h \in DOMAIN heap :
            (heap'[h].current_step # heap[h].current_step \/ heap'[h].logs # heap[h].logs) =>
                \E t \in TaskIds : current = {t} /\ tasks[t].run = {h}]_vars

C10_Witness ==
    \E t, u \in TaskIds :
        /\ t # u /\ Healthy(t) /\ Healthy(u)
        /\ tasks[t].pipeline = tasks[u].pipeline
        /\ tasks[t].pc = "done" /\ tasks[u].pc = "done"
        /\ RunOf(t).status = "succeeded" /\ RunOf(u).status = "succeeded"
        /\ \E s1 \in RunOf(t).started_at, f1 \in RunOf(t).finished_at,
              s2 \in RunOf(u).started_at : s1 < s2 /\ s2 < f1

(***************************************************************************)
(* tests/test_storage.py, test_concurrent_run_updates: NumWriters threads  *)
(* each repeat Updates times {get_run; logs.append; update_run} on one     *)
(* stored Run.  A frame of `requests` is the thread's position: pc the     *)
(* statement it executes next, i the loop index, ref the reference get_run *)
(* returned.                                                               *)
(***************************************************************************)
NumWriters == 2
Updates == 3

Writers == 1..NumWriters

\* f"Thread {thread_id} - Update {i}"
WriterLine(thread_id, i) ==
    <<"Thread ", ToString(thread_id), " - Update ", ToString(i)>>

WriterFrame == [op |-> "update_run_logs", pc |-> "get_run", i |-> 0, ref |-> {}]

\* setup_method and lines 267-268: a fresh store holding one new Run.
WritersInit ==
    /\ pipelines = << >>
    /\ nPipelines = 0
    /\ heap = <<Run(RunId(1), "pipeline-123")>>
    /\ runs = create_run(<< >>, RunId(1), 1)
    /\ tasks = << >>
    /\ current = {}
    /\ clock = 0
    /\ requests = [w \in Writers |-> WriterFrame]
    /\ logger = {}

\* for i in range(Updates): the next iteration, or the thread ends.
NextUpdate(frame) ==
    IF frame.i + 1 < Updates
        THEN [frame EXCEPT !.pc = "get_run", !.i = @ + 1, !.ref = {}]
        ELSE [frame EXCEPT !.pc = "done", !.i = @ + 1, !.ref = {}]

\* line 274, and the `if current_run:` of line 275
WriterGet(w) ==
    /\ requests[w].pc = "get_run"
    /\ LET current_run == get_run(runs, RunId(1))
       IN  requests' = [requests EXCEPT ![w] =
                          IF current_run = {} THEN NextUpdate(@)
                          ELSE [@ EXCEPT !.pc = "append", !.ref = current_run]]
    /\ UNCHANGED <<pipelines, nPipelines, heap, runs, tasks, current, clock, logger>>

\* line 276: list.append on the object behind the reference
WriterAppend(w) ==
    /\ requests[w].pc = "append"
    /\ LET h == CHOOSE r \in requests[w].ref : TRUE
       IN  heap' = [heap EXCEPT ![h] = Logged(@, WriterLine(w, requests[w].i))]
    /\ requests' = [requests EXCEPT ![w].pc = "update_run"]
    /\ UNCHANGED <<pipelines, nPipelines, runs, tasks, current, clock, logger>>

\* line 277
WriterUpdate(w) ==
    /\ requests[w].pc = "update_run"
    /\ runs' = update_run(runs, RunId(1), CHOOSE r \in requests[w].ref : TRUE)
    /\ requests' = [requests EXCEPT ![w] = NextUpdate(@)]
    /\ UNCHANGED <<pipelines, nPipelines, heap, tasks, current, clock, logger>>

WritersNext ==
    \E w \in Writers :
        \/ WriterGet(w)
        \/ WriterAppend(w)
        \/ WriterUpdate(w)

WritersSpec == WritersInit /\ [][WritersNext]_vars

\* C11: when every writer has finished its Updates rounds, the Run read
\* from the store holds NumWriters * Updates log lines, and among them the
\* line of every round of every writer.
C11_NoLostUpdates ==
    (\A w \in Writers : requests[w].pc = "done") =>
        \A run \in ReadRun(RunId(1)) :
            /\ Len(run.logs) = NumWriters * Updates
            /\ \A w \in Writers, i \in 0..(Updates - 1) :
                  \E j \in DOMAIN run.logs : run.logs[j] = WriterLine(w, i)

\* Both writers are done and their appends were interleaved.
C11_Witness ==
    /\ \A w \in Writers : requests[w].pc = "done"
    /\ \E run \in ReadRun(RunId(1)) :
          /\ Len(run.logs) = NumWriters * Updates
          /\ run.logs[1][2] # run.logs[2][2]

(***************************************************************************)
(* The store called directly, as tests/test_storage.py calls it.  Every    *)
(* method runs under the RLock, so concurrent callers amount to one call   *)
(* after the other.  requests[1] is the frame of the latest call: the      *)
(* method, the id it was given and the value it returned.                  *)
(***************************************************************************)
\* The ids callers pass: ids of stored entities and ids never stored.
StoreIds == {PipelineId(1), "missing", RunId(1), RunId(2)}

\* The updated_at a caller may put in the Pipeline it passes.
SuppliedTimes == {0, MaxClock}

StoreSteps == {<<LintStep>>, <<LintStep, BuildStep>>}

Returned(op, id, ret) == <<[op |-> op, id |-> id, ret |-> ret]>>

StoreInit ==
    /\ pipelines = << >>
    /\ nPipelines = 0
    /\ heap = << >>
    /\ runs = << >>
    /\ tasks = << >>
    /\ current = {}
    /\ clock = 0
    /\ requests = << >>
    /\ logger = {}

\* Pipeline(...) is constructed (both timestamps default to utcnow()), then
\* create_pipeline stores it.
StoreCreatePipeline(steps) ==
    /\ nPipelines < MaxPipelines
    /\ \E created_at \in utcnow :
         \E updated_at \in created_at..MaxClock :
            LET pipeline == Timestamped(Pipeline(PipelineId(nPipelines + 1), steps),
                                        created_at, updated_at)
            IN  /\ pipelines' = create_pipeline(pipelines, pipeline)
                /\ requests' = Returned("create_pipeline", pipeline.id, {pipeline})
                /\ clock' = updated_at
    /\ nPipelines' = nPipelines + 1
    /\ UNCHANGED <<heap, runs, tasks, current, logger>>

\* update_pipeline(pipeline_id, updated), updated a Pipeline built by the
\* caller with the timestamps the caller chose.
StoreUpdatePipeline(pipeline_id, steps, created_at, updated_at) ==
    /\ \E now \in utcnow :
         LET updated == Timestamped(Pipeline(pipeline_id, steps), created_at, updated_at)
         IN  /\ pipelines' = update_pipeline(pipelines, pipeline_id, updated, now)
             /\ requests' = Returned("update_pipeline", pipeline_id,
                              update_pipeline_returns(pipelines, pipeline_id, updated, now))
             /\ clock' = IF pipeline_id \in DOMAIN pipelines THEN now ELSE clock
    /\ UNCHANGED <<nPipelines, heap, runs, tasks, current, logger>>

StoreDeletePipeline(pipeline_id) ==
    /\ pipelines' = delete_pipeline(pipelines, pipeline_id)
    /\ requests' = Returned("delete_pipeline", pipeline_id,
                            delete_pipeline_returns(pipelines, pipeline_id))
    /\ UNCHANGED <<nPipelines, heap, runs, tasks, current, clock, logger>>

\* Run(pipeline_id=...) is constructed, then create_run stores it.
StoreCreateRun(pipeline_id) ==
    /\ Len(heap) < MaxRuns
    /\ LET h == Len(heap) + 1
       IN  /\ heap' = Append(heap, Run(RunId(h), pipeline_id))
           /\ runs' = create_run(runs, RunId(h), h)
           /\ requests' = Returned("create_run", RunId(h), {h})
    /\ UNCHANGED <<pipelines, nPipelines, tasks, current, clock, logger>>

\* The caller changes a Run object it holds and calls update_run(run_id, run).
StoreUpdateRun(run_id, h, status) ==
    /\ h \in DOMAIN heap
    /\ heap' = [heap EXCEPT ![h].status = status]
    /\ runs' = update_run(runs, run_id, h)
    /\ requests' = Returned("update_run", run_id, update_run_returns(runs, run_id, h))
    /\ UNCHANGED <<pipelines, nPipelines, tasks, current, clock, logger>>

StoreNext ==
    \/ \E steps \in StoreSteps : StoreCreatePipeline(steps)
    \/ \E id \in StoreIds, steps \in StoreSteps, u \in SuppliedTimes :
          StoreUpdatePipeline(id, steps, 0, u)
    \/ \E id \in StoreIds : StoreDeletePipeline(id)
    \/ StoreCreateRun(PipelineId(1))
    \/ \E id \in StoreIds, h \in 1..MaxRuns, status \in {"running", "succeeded"} :
          StoreUpdateRun(id, h, status)

StoreSpec == StoreInit /\ [][StoreNext]_vars

\* The call that has just returned.
Called(op) == requests' # << >> /\ requests'[1].op = op /\ requests' # requests

\* C13: update_pipeline and update_run given an id that is not stored
\* return None and change neither collection; given a stored id they
\* replace that entry and add none.
C13_UpdateIsNotUpsert ==
    [][/\ Called("update_pipeline") =>
            /\ DOMAIN pipelines' = DOMAIN pipelines
            /\ runs' = runs
            /\ IF requests'[1].id \in DOMAIN pipelines
                 THEN requests'[1].ret = {pipelines'[requests'[1].id]}
                 ELSE requests'[1].ret = {} /\ pipelines' = pipelines
       /\ Called("update_run") =>
            /\ DOMAIN runs' = DOMAIN runs
            /\ pipelines' = pipelines
            /\ IF requests'[1].id \in DOMAIN runs
                 THEN requests'[1].ret = {runs'[requests'[1].id]}
                 ELSE requests'[1].ret = {} /\ runs' = runs]_vars

\* Both updates were called with an id that is not stored, while another
\* entity of each kind is.
C13_Witness ==
    /\ requests # << >>
    /\ requests[1].op \in {"update_pipeline", "update_run"}
    /\ requests[1].ret = {}
    /\ DOMAIN pipelines # {} /\ DOMAIN runs # {}
    /\ requests[1].id \in {"missing", RunId(2)}

(***************************************************************************)
(* main.py: the request handlers, statement by statement where another     *)
(* thread can come in between.  requests[r] is the frame of the request    *)
(* that handler thread r serves (or served last): pc the statement it      *)
(* executes next, on_loop whether the thread is the one running the event  *)
(* loop, local the Pipeline the handler holds, run its Run, outcome what   *)
(* the GitHub dispatch did, response the Optional HTTP response.           *)
(***************************************************************************)
MaxThreads == 2

Threads == 1..MaxThreads

Idle ==
    [op |-> "idle", pc |-> "idle", on_loop |-> FALSE, pipeline_id |-> "",
     local |-> {}, run |-> {}, outcome |-> "", response |-> {}]

Request(op, pc, on_loop, pipeline_id, local) ==
    [op |-> op, pc |-> pc, on_loop |-> on_loop, pipeline_id |-> pipeline_id,
     local |-> local, run |-> {}, outcome |-> "", response |-> {}]

\* The handler returns or raises HTTPException: the response goes out and
\* the handler's locals are gone.
Respond(frame, status_code, body) ==
    [Idle EXCEPT !.op = frame.op, !.pc = "responded",
                 !.response = {[status_code |-> status_code, body |-> body]}]

Free(r) == requests[r].pc \in {"idle", "responded"}

\* A synchronous handler called on the event loop's thread keeps the loop
\* from running any coroutine until it returns.
LoopHeld_Never == FALSE

LoopHeld == \E r \in Threads : requests[r].on_loop /\ ~Free(r)

\* Request bodies: FastAPI builds CreatePipelineRequest, and with it every
\* Step, before the handler runs.
MissingDockerfileStep == Step("image", "build", {}, {}, {"app/backend"}, {})
EmptyCommandStep == Step("sh", "run", {""}, {}, {}, {})

ApiSteps ==
    {<<LintStep>>, <<LintStep, BuildStep>>, <<LintStep, MissingDockerfileStep>>,
     <<EmptyCommandStep>>, <<UnknownStep>>}

ApiIds == {PipelineId(n) : n \in 1..MaxPipelines}

Accepted(steps) == \A i \in 1..Len(steps) : ValidateByType(steps[i])

ApiInit ==
    /\ pipelines = << >>
    /\ nPipelines = 0
    /\ heap = << >>
    /\ runs = << >>
    /\ tasks = << >>
    /\ current = {}
    /\ clock = 0
    /\ requests = [r \in Threads |-> Idle]
    /\ logger = {}

\* POST /pipelines
PostPipelines(r, steps) ==
    /\ Free(r)
    /\ IF ~Accepted(steps)
         THEN /\ requests' = [requests EXCEPT ![r] =
                    Respond(Request("create_pipeline", "", FALSE, "", {}), 422, "detail")]
              /\ UNCHANGED <<pipelines, nPipelines, clock>>
         ELSE /\ nPipelines < MaxPipelines
              /\ \E created_at \in utcnow :
                   \E updated_at \in created_at..MaxClock :
                      LET pipeline == Timestamped(Pipeline(PipelineId(nPipelines + 1), steps),
                                                  created_at, updated_at)
                      IN  /\ pipelines' = create_pipeline(pipelines, pipeline)
                          /\ requests' = [requests EXCEPT ![r] =
                                Respond(Request("create_pipeline", "", FALSE, pipeline.id, {}),
                                        201, pipeline)]
                          /\ clock' = updated_at
              /\ nPipelines' = nPipelines + 1
    /\ UNCHANGED <<heap, runs, tasks, current, logger>>

\* PUT /pipelines/{pipeline_id}, lines 339-349: the lookup, the 404, and the
\* construction of `updated` (its updated_at defaults to utcnow()).
PutPipelineGet(r, pipeline_id, steps) ==
    /\ Free(r)
    /\ LET frame == Request("update_pipeline", "update_pipeline", FALSE, pipeline_id, {})
           found == get_pipeline(pipelines, pipeline_id)
       IN  IF ~Accepted(steps)
             THEN /\ requests' = [requests EXCEPT ![r] = Respond(frame, 422, "detail")]
                  /\ clock' = clock
           ELSE IF found = {}
             THEN /\ requests' = [requests EXCEPT ![r] =
                        Respond(frame, 404, "Pipeline not found")]
                  /\ clock' = clock
           ELSE \E updated_at \in utcnow :
                  /\ requests' = [requests EXCEPT ![r] =
                        [frame EXCEPT !.local =
                            {Timestamped(Pipeline(pipeline_id, steps),
                                         (CHOOSE c \in found : TRUE).created_at,
                                         updated_at)}]]
                  /\ clock' = updated_at
    /\ UNCHANGED <<pipelines, nPipelines, heap, runs, tasks, current, logger>>

\* lines 350-353
PutPipelineUpdate(r) ==
    /\ requests[r].op = "update_pipeline" /\ requests[r].pc = "update_pipeline"
    /\ LET updated == CHOOSE u \in requests[r].local : TRUE
           id == requests[r].pipeline_id
       IN  \E now \in utcnow :
             LET saved == update_pipeline_returns(pipelines, id, updated, now)
             IN  /\ pipelines' = update_pipeline(pipelines, id, updated, now)
                 /\ clock' = IF saved = {} THEN clock ELSE now
                 /\ requests' = [requests EXCEPT ![r] =
                       IF saved = {} THEN Respond(@, 500, "Failed to update pipeline")
                       ELSE Respond(@, 200, CHOOSE p \in saved : TRUE)]
    /\ UNCHANGED <<nPipelines, heap, runs, tasks, current, logger>>

DeletePipeline_Cascade(r, pipeline_id) ==
    /\ Free(r)
    /\ pipelines' = delete_pipeline(pipelines, pipeline_id)
    /\ runs' = [k \in {j \in DOMAIN runs : heap[runs[j]].pipeline_id # pipeline_id}
                  |-> runs[k]]
    /\ requests' = [requests EXCEPT ![r] =
          IF delete_pipeline_returns(pipelines, pipeline_id)
            THEN Respond(Request("delete_pipeline", "", FALSE, pipeline_id, {}), 204, "")
            ELSE Respond(Request("delete_pipeline", "", FALSE, pipeline_id, {}),
                         404, "Pipeline not found")]
    /\ UNCHANGED <<nPipelines, heap, tasks, current, clock, logger>>

\* DELETE /pipelines/{pipeline_id}
DeletePipeline(r, pipeline_id) ==
    /\ Free(r)
    /\ pipelines' = delete_pipeline(pipelines, pipeline_id)
    /\ requests' = [requests EXCEPT ![r] =
          IF delete_pipeline_returns(pipelines, pipeline_id)
            THEN Respond(Request("delete_pipeline", "", FALSE, pipeline_id, {}), 204, "")
            ELSE Respond(Request("delete_pipeline", "", FALSE, pipeline_id, {}),
                         404, "Pipeline not found")]
    /\ UNCHANGED <<nPipelines, heap, runs, tasks, current, clock, logger>>

(***************************************************************************)
(* GitHubIntegrationManager.trigger_workflow: what the GitHub side did,    *)
(* and the records the manager gives the application logger for it.        *)
(***************************************************************************)
GitHubOutcomes ==
    {"no_token", "missing", "status_204", "status_422", "raised"}

GitHubFailures == {"missing", "status_422", "raised"}

NotFoundRecord == <<"info", "GitHub workflow ", " not found in ">>
TriggeredRecord == <<"info", "GitHub Actions workflow triggered successfully for pipeline ">>
StatusRecord == <<"warning", "GitHub Actions workflow trigger failed with status ">>
RaisedRecord == <<"error", "GitHub workflow trigger failed for pipeline ">>

trigger_workflow_logs_Silent(outcome) ==
    IF outcome = "status_204" THEN {TriggeredRecord} ELSE {}

trigger_workflow_logs(outcome) ==
    IF outcome = "missing" THEN {NotFoundRecord}
    ELSE IF outcome = "status_204" THEN {TriggeredRecord}
    ELSE IF outcome = "status_422" THEN {StatusRecord}
    ELSE IF outcome = "raised" THEN {RaisedRecord}
    ELSE {}

\* The bool trigger_workflow returns; trigger_pipeline ignores it.
trigger_workflow_returns(outcome) == outcome = "status_204"

(***************************************************************************)
(* POST /pipelines/{pipeline_id}/trigger                                   *)
(***************************************************************************)
\* Triggers that have passed the lookup and not yet built their Run.
Lookups == {r \in Threads : requests[r].op = "trigger_pipeline"
                              /\ requests[r].pc = "create_run"}

\* lines 402-404
TriggerGet(r, pipeline_id, on_loop) ==
    /\ Free(r)
    /\ on_loop => current = {} /\ ~LoopHeld
    /\ LET frame == Request("trigger_pipeline", "create_run", on_loop, pipeline_id,
                            get_pipeline(pipelines, pipeline_id))
       IN  IF frame.local = {}
             THEN requests' = [requests EXCEPT ![r] =
                     Respond(frame, 404, "Pipeline not found")]
             ELSE /\ Len(heap) + Cardinality(Lookups) < MaxRuns
                  /\ requests' = [requests EXCEPT ![r] = frame]
    /\ UNCHANGED <<pipelines, nPipelines, heap, runs, tasks, current, clock, logger>>

\* lines 406-407
TriggerCreateRun(r) ==
    /\ requests[r].op = "trigger_pipeline" /\ requests[r].pc = "create_run"
    /\ LET h == Len(heap) + 1
           run == Run(RunId(h), requests[r].pipeline_id)
       IN  /\ heap' = Append(heap, run)
           /\ runs' = create_run(runs, run.id, h)
           /\ requests' = [requests EXCEPT ![r].pc = "trigger_workflow", ![r].run = {h}]
    /\ UNCHANGED <<pipelines, nPipelines, tasks, current, clock, logger>>

\* line 427
TriggerWorkflow(r, outcome) ==
    /\ requests[r].op = "trigger_pipeline" /\ requests[r].pc = "trigger_workflow"
    /\ logger' = logger \cup trigger_workflow_logs(outcome)
    /\ requests' = [requests EXCEPT ![r].pc = "create_task", ![r].outcome = outcome]
    /\ UNCHANGED <<pipelines, nPipelines, heap, runs, tasks, current, clock>>

\* lines 430-438
TriggerCreateTask(r) ==
    /\ requests[r].op = "trigger_pipeline" /\ requests[r].pc = "create_task"
    /\ LET h == CHOOSE x \in requests[r].run : TRUE
       IN  IF requests[r].on_loop
             THEN /\ tasks' = Append(tasks, Task(requests[r].local, {h}))
                  /\ heap' = heap
             ELSE /\ heap' = [heap EXCEPT ![h] = Logged(@, QueuedLine)]
                  /\ tasks' = tasks
    /\ requests' = [requests EXCEPT ![r].pc = "return"]
    /\ UNCHANGED <<pipelines, nPipelines, runs, current, clock, logger>>

\* TriggerResponse(run_id=run.id, status=run.status)
TriggerResponse(run) == [run_id |-> run.id, status |-> run.status]

\* line 439
TriggerReturn(r) ==
    /\ requests[r].op = "trigger_pipeline" /\ requests[r].pc = "return"
    /\ requests' = [requests EXCEPT ![r] =
          Respond(@, 202, TriggerResponse(heap[CHOOSE x \in requests[r].run : TRUE]))]
    /\ UNCHANGED <<pipelines, nPipelines, heap, runs, tasks, current, clock, logger>>

\* The event loop runs coroutines only while no handler occupies its thread.
LoopRuns == ~LoopHeld /\ Executor

\* The handlers alone, with no GitHub token configured (trigger_workflow
\* returns at line 141); the coroutines they schedule are left to the loop.
ApiNext ==
    \/ \E r \in Threads, steps \in ApiSteps : PostPipelines(r, steps)
    \/ \E r \in Threads, id \in ApiIds, steps \in ApiSteps : PutPipelineGet(r, id, steps)
    \/ \E r \in Threads : PutPipelineUpdate(r)
    \/ \E r \in Threads, id \in ApiIds : DeletePipeline(r, id)
    \/ \E r \in Threads, id \in ApiIds, on_loop \in BOOLEAN : TriggerGet(r, id, on_loop)
    \/ \E r \in Threads : TriggerCreateRun(r)
    \/ \E r \in Threads : TriggerWorkflow(r, "no_token")
    \/ \E r \in Threads : TriggerCreateTask(r)
    \/ \E r \in Threads : TriggerReturn(r)

ApiSpec == ApiInit /\ [][ApiNext]_vars

\* One client creates and triggers pipelines, GitHub answers in every way
\* it can, and the loop runs what was scheduled.
Client == 1

TriggerNext ==
    \/ \E steps \in ApiSteps : PostPipelines(Client, steps)
    \/ \E id \in ApiIds, on_loop \in BOOLEAN : TriggerGet(Client, id, on_loop)
    \/ TriggerCreateRun(Client)
    \/ \E outcome \in GitHubOutcomes : TriggerWorkflow(Client, outcome)
    \/ TriggerCreateTask(Client)
    \/ TriggerReturn(Client)
    \/ LoopRuns

TriggerSpec == ApiInit /\ [][TriggerNext]_vars

\* The request thread r has just answered, as handler op.
Answered(r, op) ==
    /\ requests'[r] # requests[r]
    /\ requests'[r].op = op /\ requests'[r].pc = "responded"

StatusCode(r) == (CHOOSE resp \in requests[r].response : TRUE).status_code

Body(r) == (CHOOSE resp \in requests[r].response : TRUE).body

\* C12: a DELETE /pipelines/{id}, found or not, changes neither the Run
\* collection nor any Run object: every run id reads as before, also the
\* ids of Runs whose pipeline_id now names no stored Pipeline.
C12_DeleteDoesNotCascade ==
    [][\A r \in Threads :
          Answered(r, "delete_pipeline") =>
              /\ runs' = runs
              /\ heap' = heap
              /\ \A id \in DOMAIN runs :
                    {heap'[h] : h \in get_run(runs', id)} = ReadRun(id)]_vars

\* A Pipeline was deleted (204) and a Run that references it is still read.
C12_Witness ==
    /\ \E r \in Threads :
          /\ requests[r].op = "delete_pipeline" /\ requests[r].pc = "responded"
          /\ StatusCode(r) = 204
    /\ \E id \in DOMAIN runs :
          /\ ReadRun(id) # {}
          /\ \A run \in ReadRun(id) : run.pipeline_id \notin DOMAIN pipelines

\* C14: as long as a Pipeline is stored its id and created_at stay and its
\* updated_at does not decrease; a successful PUT stores the time of the
\* store's write as updated_at, whatever updated_at the handler's object
\* carried.
C14_UpdateKeepsIdentity ==
    [][/\ \A id \in DOMAIN pipelines \cap DOMAIN pipelines' :
             /\ pipelines'[id].id = id
             /\ pipelines'[id].created_at = pipelines[id].created_at
             /\ pipelines'[id].updated_at >= pipelines[id].updated_at
       /\ \A r \in Threads :
             (Answered(r, "update_pipeline")
                 /\ (CHOOSE resp \in requests'[r].response : TRUE).status_code = 200) =>
                 LET id == requests[r].pipeline_id
                 IN  /\ id \in DOMAIN pipelines /\ id \in DOMAIN pipelines'
                     /\ pipelines'[id].updated_at = clock'
                     /\ (CHOOSE resp \in requests'[r].response : TRUE).body = pipelines'[id]]_vars

\* Two PUTs succeeded at different times, the later one after its object
\* was built: the stored Pipeline is the later one's.
C14_Witness ==
    \E r, q \in Threads :
        /\ requests[r].op = "update_pipeline" /\ requests[r].pc = "responded"
        /\ requests[q].op = "update_pipeline" /\ requests[q].pc = "responded"
        /\ StatusCode(r) = 200 /\ StatusCode(q) = 200
        /\ Body(r).updated_at < Body(q).updated_at
        /\ Body(q).id \in DOMAIN pipelines
        /\ pipelines[Body(q).id] = Body(q)
        /\ Body(q).created_at < Body(r).updated_at

\* C15: a trigger of a stored Pipeline adds exactly one Run, pending, to the
\* store, and only its create_run step adds any; when the 202 response goes
\* out it carries that Run's id and status pending, the Run is in the store,
\* still pending, and no step of its execution has been taken; no step
\* removes a run id, so the id of a response is found by get_run ever after.
C15_TriggerCreatesPendingRun ==
    /\ [][/\ DOMAIN runs \subseteq DOMAIN runs'
          /\ DOMAIN runs' # DOMAIN runs =>
                \E r \in Threads :
                    /\ requests[r].op = "trigger_pipeline"
                    /\ requests[r].pc = "create_run"
                    /\ requests'[r].pc = "trigger_workflow"
                    /\ Cardinality(DOMAIN runs') = Cardinality(DOMAIN runs) + 1
                    /\ \A id \in DOMAIN runs' \ DOMAIN runs :
                          /\ requests'[r].run = {runs'[id]}
                          /\ heap'[runs'[id]] = Run(id, requests[r].pipeline_id)
          /\ \A r \in Threads :
                Answered(r, "trigger_pipeline") /\ requests[r].local # {} =>
                    LET resp == CHOOSE x \in requests'[r].response : TRUE
                        h == CHOOSE x \in requests[r].run : TRUE
                    IN  /\ resp.status_code = 202
                        /\ resp.body = [run_id |-> heap[h].id, status |-> "pending"]
                        /\ get_run(runs', resp.body.run_id) = {h}
                        /\ heap'[h].status = "pending"
                        /\ \A t \in 1..Len(tasks) :
                              tasks[t].run = {h} => tasks[t].pc = "created"]_vars
    /\ [](\A r \in Threads :
            (requests[r].op = "trigger_pipeline" /\ requests[r].pc = "responded"
                /\ StatusCode(r) = 202) =>
                get_run(runs, Body(r).run_id) # {})

\* The response said pending, and the Run it names has since run to its end.
C15_Witness ==
    \E r \in Threads :
        /\ requests[r].op = "trigger_pipeline" /\ requests[r].pc = "responded"
        /\ StatusCode(r) = 202 /\ Body(r).status = "pending"
        /\ \E run \in ReadRun(Body(r).run_id) : run.status = "succeeded"

\* A line on a Run's log that records a failed GitHub dispatch.
IsDispatchFailureLine(line) ==
    \E record \in {NotFoundRecord, StatusRecord, RaisedRecord} : line[1] = record[2]

Dispatched(r) ==
    /\ requests[r].op = "trigger_pipeline"
    /\ requests[r].pc \in {"create_task", "return"}

\* C16 as stated: once the GitHub dispatch of a trigger has failed (workflow
\* missing, status other than 204, exception), the trigger's Run is in the
\* store, the handler goes on to its response, and the Run's log holds a
\* line recording the failure.
C16_DispatchFailureOnRunLog ==
    \A r \in Threads :
        (Dispatched(r) /\ requests[r].outcome \in GitHubFailures) =>
            \A h \in requests[r].run :
                /\ get_run(runs, heap[h].id) = {h}
                /\ \E j \in DOMAIN heap[h].logs : IsDispatchFailureLine(heap[h].logs[j])

\* C16 amended: whatever the GitHub dispatch does, its step changes no Run,
\* neither collection and no task, and gives the application logger the
\* record of the failure (info: workflow not found, warning: status other
\* than 204, error: exception); the handler can always take its next
\* statement, and its response is 202 with the Run in the store.
C16_DispatchFailureLoggedNotFatal ==
    /\ [][\A r \in Threads :
            /\ (requests[r].pc = "trigger_workflow" /\ requests'[r].pc = "create_task") =>
                  /\ heap' = heap /\ runs' = runs /\ tasks' = tasks
                  /\ pipelines' = pipelines
                  /\ requests'[r].outcome = "missing" => NotFoundRecord \in logger'
                  /\ requests'[r].outcome = "status_422" => StatusRecord \in logger'
                  /\ requests'[r].outcome = "raised" => RaisedRecord \in logger'
                  /\ logger \subseteq logger'
            /\ (Dispatched(r) /\ Answered(r, "trigger_pipeline")) =>
                  /\ (CHOOSE x \in requests'[r].response : TRUE).status_code = 202
                  /\ \A h \in requests[r].run :
                        /\ get_run(runs', heap'[h].id) = {h}
                        /\ \A j \in DOMAIN heap'[h].logs :
                              ~IsDispatchFailureLine(heap'[h].logs[j])]_vars
    /\ [](\A r \in Threads :
            /\ (requests[r].op = "trigger_pipeline" /\ requests[r].pc = "create_task")
                  => ENABLED TriggerCreateTask(r)
            /\ (requests[r].op = "trigger_pipeline" /\ requests[r].pc = "return")
                  => ENABLED TriggerReturn(r))

\* Two triggers met two different failures, both are in the logger; the
\* last trigger was answered 202 and its Run has run to its end.
C16_Witness ==
    /\ RaisedRecord \in logger
    /\ Cardinality(logger \cap {NotFoundRecord, StatusRecord, RaisedRecord}) = 2
    /\ \E r \in Threads :
          /\ requests[r].op = "trigger_pipeline" /\ requests[r].pc = "responded"
          /\ StatusCode(r) = 202
          /\ \E run \in ReadRun(Body(r).run_id) : run.status = "succeeded"

\* The required-field rule of each step type.
RequiredFields(step) ==
    /\ step.type \in {"run", "build", "deploy"}
    /\ step.type = "run" => step.command \notin {{}, {""}}
    /\ step.type = "build" =>
          step.dockerfile \notin {{}, {""}} /\ step.ecr_repo \notin {{}, {""}}
    /\ step.type = "deploy" => step.manifest \notin {{}, {""}}

AllRequiredFields(pipeline) ==
    \A i \in DOMAIN pipeline.steps : RequiredFields(pipeline.steps[i])

\* C17: every step of every stored Pipeline, of every Pipeline a handler
\* holds and of every Pipeline handed to run_pipeline has the fields its
\* type requires, and every Run references an id such a Pipeline was stored
\* under; a request answered 422 leaves the store, the Runs and the tasks
\* unchanged.
C17_StoredStepsValid ==
    /\ [](/\ \A id \in DOMAIN pipelines : AllRequiredFields(pipelines[id])
          /\ \A r \in Threads : \A p \in requests[r].local : AllRequiredFields(p)
          /\ \A t \in 1..Len(tasks) : \A p \in tasks[t].pipeline : AllRequiredFields(p)
          /\ \A h \in DOMAIN heap : heap[h].pipeline_id \in ApiIds
          /\ heap # << >> => nPipelines > 0)
    /\ [][\A r \in Threads :
            (requests'[r] # requests[r] /\ requests'[r].pc = "responded"
                /\ (CHOOSE x \in requests'[r].response : TRUE).status_code = 422) =>
                /\ pipelines' = pipelines /\ runs' = runs
                /\ heap' = heap /\ tasks' = tasks]_vars

\* A request was refused with 422 while a Pipeline is stored and has a Run.
C17_Witness ==
    /\ \E r \in Threads : requests[r].pc = "responded" /\ StatusCode(r) = 422
    /\ DOMAIN pipelines # {}
    /\ \E id \in DOMAIN runs : \A run \in ReadRun(id) : run.pipeline_id \in DOMAIN pipelines

IsUnknownLine(line) == line = UnknownLine

\* The steps of task t's pipeline whose type is none of run, build, deploy.
UnknownSteps(t) ==
    {k \in DOMAIN PipelineOf(tasks[t]).steps :
        PipelineOf(tasks[t]).steps[k].type \notin {"run", "build", "deploy"}}

\* C18: the start line of a step of unknown type is followed by the line
\* "Unknown step type encountered", then by the step's failure line, then
\* by the ERROR line; the step's "completed successfully" line is never
\* logged, the step is started once, nothing is logged after the ERROR
\* line, and the Run ends failed.
C18_UnknownStepTypeFails ==
    \A t \in TaskIds :
        (HasRun(t) /\ tasks[t].pipeline # {}) =>
            \A k \in UnknownSteps(t) :
                LET step == PipelineOf(tasks[t]).steps[k]
                    log == RunOf(t).logs
                    starts == {j \in DOMAIN log : log[j] = StartLine(step, k - 1)}
                IN  /\ Cardinality(starts) <= 1
                    /\ \A j \in DOMAIN log : log[j] # CompletedLine(step)
                    /\ \A j \in starts :
                          /\ Len(log) <= j + 3
                          /\ j + 1 <= Len(log) => log[j + 1] = <<"Unknown step type encountered">>
                          /\ j + 2 <= Len(log) =>
                                log[j + 2] = <<"Step '", step.name, "' failed: ",
                                               "Unknown step type: ", step.type>>
                          /\ j + 3 <= Len(log) =>
                                log[j + 3] = <<"ERROR: ", "Unknown step type: ", step.type>>
                          /\ tasks[t].pc # "raised"
                          /\ tasks[t].pc = "done" =>
                                Len(log) = j + 3 /\ RunOf(t).status = "failed"

C18_Witness ==
    \E t \in TaskIds :
        /\ HasRun(t) /\ tasks[t].pipeline # {}
        /\ UnknownSteps(t) # {}
        /\ tasks[t].pc = "done"
        /\ Positions(RunOf(t).logs, IsUnknownLine) # {}
        /\ RunOf(t).status = "failed"

\* The tasks inside simulate_step's try block: their log lines go through
\* log(), which writes to the store.
InStep(t) ==
    tasks[t].pc \in {"log_action", "sleep", "sleeping", "log_finish", "log_completed",
                     "log_unknown", "step_except"}

\* C19: while a step executes, what a reader gets from the store under the
\* Run's id is the Run with every line logged so far, the line just
\* appended included; in particular, during the delay of step i the last
\* two lines read are step i's start line and action line, and every step
\* that appends a line leaves the store pointing at the Run it was
\* appended to.
C19_LogsPersistedBeforeDelay ==
    /\ [](\A t \in TaskIds :
            (HasRun(t) /\ InStep(t)) =>
                LET step == CurrentStep(tasks[t])
                    read == ReadRun(RunOf(t).id)
                IN  /\ read # {}
                    /\ \A run \in read :
                          /\ run.logs # << >>
                          /\ run.id = RunOf(t).id
                          /\ tasks[t].pc \in {"sleep", "sleeping"} =>
                                /\ Len(run.logs) = 4 * tasks[t].idx + 2
                                /\ run.logs[Len(run.logs) - 1] = StartLine(step, tasks[t].idx)
                                /\ run.logs[Len(run.logs)] = ActionLine(step)
                          /\ tasks[t].pc = "log_finish" =>
                                Len(run.logs) = 4 * tasks[t].idx + 2)
    /\ [][\A t \in TaskIds :
            (HasRun(t) /\ InStep(t) /\ t \in DOMAIN tasks'
                /\ heap'[CHOOSE h \in tasks[t].run : TRUE].logs # RunOf(t).logs) =>
                /\ RunOf(t).id \in DOMAIN runs'
                /\ runs'[RunOf(t).id] \in tasks[t].run
                /\ Len(heap'[runs'[RunOf(t).id]].logs) = Len(RunOf(t).logs) + 1]_vars

\* A reader polls during the delay of the second step, before any line of
\* that step's end: it reads the first step's four lines and the second
\* step's start and action lines.
C19_Witness ==
    \E t \in TaskIds :
        /\ HasRun(t)
        /\ tasks[t].pc = "sleeping" /\ tasks[t].idx = 1
        /\ \E run \in ReadRun(RunOf(t).id) :
              /\ Len(run.logs) = 6
              /\ run.status = "running"

\* The zero-based index a start line names.
StartIndexIn(line, steps) ==
    {i \in 0..(Len(steps) - 1) : line[2] = ToString(i + 1)}

\* C20: in every state, a Run whose log holds the start line of step i has
\* current_step set and >= i; and current_step, once set, is never unset
\* and never decreases.
C20_CurrentStepTracksProgress ==
    /\ [](\A t \in TaskIds :
            (HasRun(t) /\ tasks[t].pipeline # {}) =>
                \A j \in Positions(RunOf(t).logs, IsStartLine) :
                    \A i \in StartIndexIn(RunOf(t).logs[j], PipelineOf(tasks[t]).steps) :
                        /\ RunOf(t).current_step # {}
                        /\ \A c \in RunOf(t).current_step : c >= i)
    /\ [][\A h \in DOMAIN heap :
            \A c \in heap[h].current_step :
                /\ heap'[h].current_step # {}
                /\ \A d \in heap'[h].current_step : d >= c]_vars

\* The third step is active: current_step is 2 and its start line is read.
C20_Witness ==
    \E t \in TaskIds :
        /\ HasRun(t)
        /\ RunOf(t).current_step = {2}
        /\ tasks[t].pc = "sleeping"
        /\ Cardinality(Positions(RunOf(t).logs, IsStartLine)) = 3

(***************************************************************************)
(* OptionsSpec: run_pipeline called on pipelines that differ only in the   *)
(* timeout_seconds and continue_on_error of their steps.                   *)
(***************************************************************************)
FailingSteps == <<UnknownStep, DeployStep>>

PassingSteps == <<LintStep, BuildStep>>

\* The step delays are 1.0 and 1.5 seconds (simulate_step lines 172, 181):
\* a timeout of 1 second is shorter than the build step's delay.
OptionPipelines ==
    { Pipeline("test-pipeline", PassingSteps),
      Pipeline("test-pipeline", <<WithOptions(LintStep, 3600, TRUE),
                                  WithOptions(BuildStep, 1, FALSE)>>),
      Pipeline("test-pipeline", FailingSteps),
      Pipeline("test-pipeline", <<WithOptions(UnknownStep, 1, TRUE),
                                  DeployStep>>) }

OptionsNext ==
    \/ \E p \in OptionPipelines : CallRunPipeline({p}, "fresh")
    \/ Executor

OptionsSpec == Init /\ [][OptionsNext]_vars

\* The pipeline with both options of every step put back to the defaults.
Erased(pipeline) ==
    [pipeline EXCEPT
        !.steps = [i \in DOMAIN @ |-> WithOptions(@[i], DefaultTimeout, FALSE)]]

SameButOptions(t, u) ==
    /\ PipelineOf(tasks[t]) # PipelineOf(tasks[u])
    /\ Erased(PipelineOf(tasks[t])) = Erased(PipelineOf(tasks[u]))

Unfinished(t) == tasks[t].pc \notin {"done", "raised"}

\* C22: while a Run is suspended in a step delay it does not hold the event
\* loop; every other unfinished Run can take its next statement (or the
\* loop is executing it already); the store operations of the create and
\* trigger handlers can be taken whenever their arguments allow; and as long
\* as some coroutine is unfinished the executor has a step to take.
C22_DelayBlocksNothing ==
    /\ \A t \in TaskIds :
          tasks[t].pc = "sleeping" =>
              /\ t \notin current
              /\ \A u \in TaskIds \ {t} :
                    Unfinished(u) =>
                        \/ ENABLED Execute(u)
                        \/ \E v \in current \ {t, u} : ENABLED Execute(v)
              /\ nPipelines < MaxPipelines =>
                    ENABLED (\E steps \in RequestSteps : CreatePipeline(steps))
              /\ (Len(heap) < MaxRuns /\ DOMAIN pipelines # {}) =>
                    \A id \in DOMAIN pipelines, loop \in BOOLEAN :
                        ENABLED TriggerPipeline(id, loop)
    /\ (\E t \in TaskIds : Unfinished(t)) => ENABLED Executor

\* One Run is in its delay while the loop executes a statement of another
\* Run's step, and the first Run's log already grew through the store.
C22_Witness ==
    \E t, u \in TaskIds :
        /\ t # u
        /\ tasks[t].pc = "sleeping"
        /\ current = {u}
        /\ tasks[u].pc = "log_finish"
        /\ Len(RunOf(t).logs) >= 2

(***************************************************************************)
(* SnapshotSpec: the store's pipeline methods on Pipeline OBJECTS.  Here   *)
(* heap holds the Pipeline objects, pipelines maps a pipeline id to the    *)
(* handle of the object stored under it, and requests is the sequence of   *)
(* the lists that callers of list_pipelines hold, each with what its       *)
(* caller read in it when the call returned.  Callers pass create_pipeline *)
(* and update_pipeline an object they just built, as the handlers of       *)
(* main.py and the tests of test_storage.py do.                            *)
(***************************************************************************)
MaxObjects == 3
MaxListed == 2
MaxSnapshots == 2

ListedIds == {PipelineId(n) : n \in 1..MaxListed}

\* self._pipelines.values()
Values(store) == {store[k] : k \in DOMAIN store}

list_pipelines_View(store) == [view |-> TRUE, handles |-> Values(store)]

\* list(self._pipelines.values()): a new list of the stored references.
\* The order of the list is left out: only its membership is modelled.
list_pipelines(store) == [view |-> FALSE, handles |-> Values(store)]

\* The elements a holder of the returned object finds in it now: a list
\* keeps its own elements, a dictionary view shows the dictionary's.
Members(list) == IF list.view THEN Values(pipelines) ELSE list.handles

\* What the caller reads in the list at the moment the call returns.
Snapshot(list) ==
    [list |-> list, seen |-> Members(list),
     values |-> [h \in Members(list) |-> heap[h]]]

SnapInit ==
    /\ pipelines = << >>
    /\ nPipelines = 0
    /\ heap = << >>
    /\ runs = << >>
    /\ tasks = << >>
    /\ current = {}
    /\ clock = 0
    /\ requests = << >>
    /\ logger = {}

\* Pipeline(...) is constructed, then create_pipeline stores the reference.
SnapCreatePipeline(steps) ==
    /\ nPipelines < MaxListed
    /\ Len(heap) < MaxObjects
    /\ \E now \in utcnow :
         LET pipeline == Timestamped(Pipeline(PipelineId(nPipelines + 1), steps),
                                     now, now)
         IN  /\ heap' = Append(heap, pipeline)
             /\ pipelines' = Put(pipelines, pipeline.id, Len(heap) + 1)
             /\ clock' = now
    /\ nPipelines' = nPipelines + 1
    /\ UNCHANGED <<runs, tasks, current, requests, logger>>

\* Pipeline(id=pipeline_id, created_at=existing.created_at, ...) is
\* constructed, then update_pipeline stamps and stores that object.
SnapUpdatePipeline(pipeline_id, steps) ==
    /\ Len(heap) < MaxObjects
    /\ pipeline_id \in DOMAIN pipelines
    /\ \E built \in utcnow :
         \E now \in built..MaxClock :
            LET updated == Timestamped(Pipeline(pipeline_id, steps),
                                       heap[pipelines[pipeline_id]].created_at,
                                       built)
            IN  /\ heap' = Append(heap, Restamped(updated, now))
                /\ pipelines' = [pipelines EXCEPT ![pipeline_id] = Len(heap) + 1]
                /\ clock' = now
    /\ UNCHANGED <<nPipelines, runs, tasks, current, requests, logger>>

SnapDeletePipeline(pipeline_id) ==
    /\ pipeline_id \in DOMAIN pipelines
    /\ pipelines' = delete_pipeline(pipelines, pipeline_id)
    /\ UNCHANGED <<nPipelines, heap, runs, tasks, current, clock, requests,
                   logger>>

SnapListPipelines ==
    /\ Len(requests) < MaxSnapshots
    /\ requests' = Append(requests, Snapshot(list_pipelines(pipelines)))
    /\ UNCHANGED <<pipelines, nPipelines, heap, runs, tasks, current, clock,
                   logger>>

SnapNext ==
    \/ \E steps \in StoreSteps : SnapCreatePipeline(steps)
    \/ \E id \in ListedIds, steps \in StoreSteps : SnapUpdatePipeline(id, steps)
    \/ \E id \in ListedIds : SnapDeletePipeline(id)
    \/ SnapListPipelines

SnapshotSpec == SnapInit /\ [][SnapNext]_vars

CreatesEach == 2

Reader == 0

WriterThread == Request("create_pipeline", "idle", FALSE, "", {})

ReaderThread == Request("list_pipelines", "idle", FALSE, "", << >>)

CreatorsInit ==
    /\ pipelines = << >>
    /\ nPipelines = 0
    /\ heap = << >>
    /\ runs = << >>
    /\ tasks = << >>
    /\ current = {}
    /\ clock = 0
    /\ requests = [r \in Writers \cup {Reader} |->
                      IF r = Reader THEN ReaderThread ELSE WriterThread]
    /\ logger = {}

\* pipeline = Pipeline(name=..., repo_url=...): a fresh id.
CreatorBuild(w) ==
    /\ requests[w].pc = "idle"
    /\ Cardinality(requests[w].response) < CreatesEach
    /\ nPipelines' = nPipelines + 1
    /\ requests' = [requests EXCEPT
                       ![w].pc = "built",
                       ![w].local = {Pipeline(PipelineId(nPipelines + 1),
                                              <<LintStep>>)}]
    /\ UNCHANGED <<pipelines, heap, runs, tasks, current, clock, logger>>

\* result = self.db.create_pipeline(pipeline); self.results.append(result)
CreatorCreate(w) ==
    /\ requests[w].pc = "built"
    /\ LET pipeline == CHOOSE p \in requests[w].local : TRUE
       IN  /\ pipelines' = create_pipeline(pipelines, pipeline)
           /\ requests' = [requests EXCEPT
                              ![w].pc = "idle",
                              ![w].local = {},
                              ![w].response = @ \cup {pipeline}]
    /\ UNCHANGED <<nPipelines, heap, runs, tasks, current, clock, logger>>

\* pipelines = self.db.list_pipelines(); self.results.append(len(pipelines))
ReaderList ==
    /\ Len(requests[Reader].local) < MaxSnapshots
    /\ requests' = [requests EXCEPT
                       ![Reader].local =
                           Append(@, Cardinality(list_pipelines(pipelines).handles))]
    /\ UNCHANGED <<pipelines, nPipelines, heap, runs, tasks, current, clock,
                   logger>>

CreatorsNext ==
    \/ \E w \in Writers : CreatorBuild(w) \/ CreatorCreate(w)
    \/ ReaderList

CreatorsSpec == CreatorsInit /\ [][CreatorsNext]_vars

\* The Pipelines create_pipeline has returned to the writers so far.
Created == UNION {requests[w].response : w \in Writers}

AllCreated ==
    \A w \in Writers : Cardinality(requests[w].response) = CreatesEach

\* C24: with the writers creating pipelines of distinct ids and the reader
\* listing in between, the store holds exactly the pipelines whose
\* create_pipeline has returned (none lost, none other); every length the
\* reader saw lies between the initial count 0 and the present count, in
\* non-decreasing order; and when all writers are done the list holds all
\* NumWriters * CreatesEach pipelines.
C24_CreatesNotLost ==
    /\ Values(pipelines) = Created
    /\ Cardinality(DOMAIN pipelines) = Cardinality(Created)
    /\ \A i \in 1..Len(requests[Reader].local) :
          /\ 0 <= requests[Reader].local[i]
          /\ requests[Reader].local[i] <= Cardinality(DOMAIN pipelines)
          /\ \A j \in 1..(i - 1) :
                requests[Reader].local[j] <= requests[Reader].local[i]
    /\ AllCreated =>
          Cardinality(list_pipelines(pipelines).handles) = NumWriters * CreatesEach

\* All writers are done and the reader listed twice while they were
\* writing: it saw one pipeline, then three, of the final four.
C24_Witness ==
    /\ AllCreated
    /\ requests[Reader].local = <<1, 3>>
    /\ Cardinality(DOMAIN pipelines) = 4

(***************************************************************************)
(* EmptyStepsSpec: one client creates a pipeline, with or without steps,   *)
(* and triggers it (no GitHub token configured); the loop runs what was    *)
(* scheduled.                                                              *)
(***************************************************************************)
EmptySteps == {<< >>, <<LintStep>>}

EmptyStepsNext ==
    \/ \E steps \in EmptySteps : PostPipelines(Client, steps)
    \/ \E id \in ApiIds, on_loop \in BOOLEAN : TriggerGet(Client, id, on_loop)
    \/ TriggerCreateRun(Client)
    \/ TriggerWorkflow(Client, "no_token")
    \/ TriggerCreateTask(Client)
    \/ TriggerReturn(Client)
    \/ LoopRuns

EmptyStepsSpec == ApiInit /\ [][EmptyStepsNext]_vars

\* The Runs of stored pipelines that have no steps.
StepLess ==
    {h \in DOMAIN heap :
        \E p \in get_pipeline(pipelines, heap[h].pipeline_id) : p.steps = << >>}

\* C25: a request body with no steps passes the model validation and the
\* pipeline is stored with a 201; a trigger of it answers 202 with a Run
\* that is in the store and pending; the coroutine scheduled for it ends in
\* validate_pipeline's ValueError without a single write; so the Run stays
\* pending with no timestamp and no current_step, and its log is empty or
\* holds only the handler's own "queued" line.
C25_EmptyPipelineNeverRuns ==
    /\ [](Accepted(<< >>))
    /\ [][/\ \A id \in DOMAIN pipelines' \ DOMAIN pipelines :
                pipelines'[id].steps = << >> =>
                    /\ Answered(Client, "create_pipeline")
                    /\ \E resp \in requests'[Client].response :
                          resp.status_code = 201 /\ resp.body = pipelines'[id]
          /\ (/\ Answered(Client, "trigger_pipeline")
              /\ \E p \in requests[Client].local : p.steps = << >>) =>
                    \E resp \in requests'[Client].response :
                        /\ resp.status_code = 202
                        /\ resp.body.status = "pending"
                        /\ get_run(runs', resp.body.run_id) \subseteq StepLess
                        /\ get_run(runs', resp.body.run_id) # {}
          /\ \A t \in TaskIds :
                (tasks[t].run \subseteq StepLess /\ tasks'[t] # tasks[t]) =>
                    /\ tasks'[t].pc = "raised"
                    /\ tasks'[t].exc = {<<"Pipeline must have at least one step">>}
                    /\ heap' = heap /\ runs' = runs]_vars
    /\ [](\A h \in StepLess :
            /\ heap[h].status = "pending"
            /\ heap[h].started_at = {}
            /\ heap[h].finished_at = {}
            /\ heap[h].current_step = {}
            /\ heap[h].logs \in {<< >>, <<QueuedLine>>}
            /\ \A t \in TaskIds :
                  tasks[t].run = {h} =>
                      /\ tasks[t].pc \in {"created", "raised"}
                      /\ heap[h].logs = << >>)

\* The pipeline without steps was created and triggered on the loop, the
\* 202 went out, and the coroutine has been started and has raised.
C25_Witness ==
    /\ requests[Client].op = "trigger_pipeline"
    /\ requests[Client].pc = "responded"
    /\ StatusCode(Client) = 202
    /\ \E t \in TaskIds :
          /\ tasks[t].run \subseteq StepLess
          /\ tasks[t].pc = "raised"
          /\ get_run(runs, Body(Client).run_id) = tasks[t].run

(***************************************************************************)
(* gh.py: GitHubClient._make_request.  RequestSpec: one caller makes one   *)
(* request; each attempt the HTTP client raises requests.RequestException  *)
(* or returns a response.  An exception is its class and its message.      *)
(***************************************************************************)
\* stop=stop_after_attempt(3)
StopAfterAttempt == 3

\* The classes above each exception class, itself included.
Bases(class) ==
    IF class \in {"GitHubRateLimitError", "GitHubNotFoundError",
                  "GitHubPermissionError"}
        THEN {class, "GitHubAPIError", "Exception"}
    ELSE {class, "Exception"}

IsInstance(exc, classes) == Bases(exc.class) \cap classes # {}

Raise(class, message) == [class |-> class, message |-> message]

\* The methods the callers in gh.py pass.
Methods == {"GET", "POST", "PUT"}

\* What the HTTP client does on one attempt: it raises RequestException
\* (status_code 0) or returns a response; rate_limit says whether
\* "rate limit" occurs in response.text.lower().
Reply(status_code, rate_limit) ==
    [status_code |-> status_code, rate_limit |-> rate_limit]

ConnectionFailed == Reply(0, FALSE)

Replies ==
    {ConnectionFailed, Reply(200, FALSE), Reply(401, FALSE), Reply(403, TRUE),
     Reply(403, FALSE), Reply(404, FALSE), Reply(422, FALSE), Reply(500, FALSE),
     Reply(503, FALSE)}

\* _retry_request, lines 172-195: the Optional exception one attempt raises.
retry_request(method, reply) ==
    IF method \notin {"GET", "POST", "PUT"}
        THEN {Raise("ValueError", "Unsupported HTTP method")}
    ELSE IF reply = ConnectionFailed
        THEN {Raise("RequestException", "")}
    ELSE IF reply.status_code = 403 /\ reply.rate_limit
        THEN {Raise("GitHubRateLimitError", "Rate limit exceeded")}
    ELSE IF reply.status_code = 401
        THEN {Raise("GitHubAPIError", "Authentication failed")}
    ELSE IF reply.status_code = 403
        THEN {Raise("GitHubPermissionError", "Insufficient permissions")}
    ELSE IF reply.status_code = 404
        THEN {Raise("GitHubNotFoundError", "Resource not found")}
    ELSE IF reply.status_code >= 500
        THEN {Raise("GitHubAPIError", "GitHub server error")}
    ELSE {}

Retried_ServerErrors(exc) ==
    \/ IsInstance(exc, {"RequestException", "GitHubRateLimitError"})
    \/ exc.message = "GitHub server error"

\* retry=retry_if_exception_type((requests.RequestException,
\* GitHubRateLimitError))
Retried(exc) == IsInstance(exc, {"RequestException", "GitHubRateLimitError"})

\* Lines 196-202: GitHub errors pass, anything else (tenacity's RetryError
\* too) becomes GitHubAPIError("Unexpected error: ...").
Reraised(exc) ==
    IF IsInstance(exc, {"GitHubRateLimitError", "GitHubAPIError"}) THEN exc
    ELSE Raise("GitHubAPIError", "Unexpected error")

\* The frame of _make_request: the replies of the attempts so far, and how
\* the call ended.
Call(method) ==
    [op |-> "_make_request", pc |-> "attempt", method |-> method,
     replies |-> << >>, exc |-> {}, returned |-> {}]

RequestInit ==
    /\ pipelines = << >>
    /\ nPipelines = 0
    /\ heap = << >>
    /\ runs = << >>
    /\ tasks = << >>
    /\ current = {}
    /\ clock = 0
    /\ requests = [r \in {Client} |-> Idle]
    /\ logger = {}

MakeRequest(method) ==
    /\ requests[Client].pc = "idle"
    /\ requests' = [requests EXCEPT ![Client] = Call(method)]
    /\ UNCHANGED <<pipelines, nPipelines, heap, runs, tasks, current, clock,
                   logger>>

\* One call of _retry_request by tenacity, and what tenacity and the
\* try/except of _make_request do with its outcome.
Attempt(reply) ==
    /\ requests[Client].pc = "attempt"
    /\ LET frame == requests[Client]
           replies == Append(frame.replies, reply)
           raised == retry_request(frame.method, reply)
           exc == CHOOSE e \in raised : TRUE
       IN  requests' = [requests EXCEPT ![Client] =
              IF raised = {}
                  THEN [frame EXCEPT !.replies = replies, !.pc = "returned",
                                     !.returned = {reply}]
              ELSE IF ~Retried(exc)
                  THEN [frame EXCEPT !.replies = replies, !.pc = "raised",
                                     !.exc = {Reraised(exc)}]
              ELSE IF Len(replies) >= StopAfterAttempt
                  THEN [frame EXCEPT !.replies = replies, !.pc = "raised",
                                     !.exc = {Reraised(Raise("RetryError", ""))}]
              ELSE [frame EXCEPT !.replies = replies, !.pc = "wait"]]
    /\ UNCHANGED <<pipelines, nPipelines, heap, runs, tasks, current, clock,
                   logger>>

\* wait=wait_exponential(multiplier=1, min=4, max=10): the wait is over.
Retry ==
    /\ requests[Client].pc = "wait"
    /\ requests' = [requests EXCEPT ![Client].pc = "attempt"]
    /\ UNCHANGED <<pipelines, nPipelines, heap, runs, tasks, current, clock,
                   logger>>

RequestNext ==
    \/ \E method \in Methods : MakeRequest(method)
    \/ \E reply \in Replies : Attempt(reply)
    \/ Retry

RequestSpec == RequestInit /\ [][RequestNext]_vars

\* The request in flight or ended.
TheCall == requests[Client]

Called_make_request == TheCall.op = "_make_request"

IsServerError(reply) == reply.status_code >= 500

IsRateLimit(reply) == reply.status_code = 403 /\ reply.rate_limit

\* 401, a 403 that is not a rate limit, 404.
IsClientError(reply) ==
    reply.status_code \in {401, 404} \/ (reply.status_code = 403 /\ ~reply.rate_limit)

\* Attempt i was followed by another attempt or by the wait for one.
RetriedAfter(i) ==
    \/ i < Len(TheCall.replies)
    \/ i = Len(TheCall.replies) /\ TheCall.pc \in {"wait", "attempt"}

AttemptsBounded == Len(TheCall.replies) <= StopAfterAttempt

\* When the last allowed attempt fails in a retried way, or any attempt
\* fails in another way, the call raises GitHubAPIError (or a subclass).
EndsWithGitHubAPIError ==
    /\ TheCall.pc = "raised" =>
          \A e \in TheCall.exc : IsInstance(e, {"GitHubAPIError"})
    /\ (Len(TheCall.replies) = StopAfterAttempt /\ TheCall.pc # "returned") =>
          TheCall.pc = "raised"

\* C26 as stated: at most 3 attempts; an attempt is retried only after a
\* network error or a 5xx response, and those are retried while attempts
\* remain; a 401, a non-rate-limit 403 or a 404 ends the call at once; a
\* call that used up its attempts ends with GitHubAPIError.
C26_RetriesNetworkAnd5xxOnly ==
    Called_make_request =>
        /\ AttemptsBounded
        /\ \A i \in 1..Len(TheCall.replies) :
              LET reply == TheCall.replies[i]
              IN  /\ RetriedAfter(i) =>
                        reply = ConnectionFailed \/ IsServerError(reply)
                  /\ (IsServerError(reply) /\ i < StopAfterAttempt) =>
                        RetriedAfter(i)
                  /\ IsClientError(reply) => ~RetriedAfter(i)
        /\ EndsWithGitHubAPIError

\* C26, amended: at most 3 attempts; an attempt is retried exactly when the
\* HTTP client raised RequestException or the response was a rate-limit
\* 403, while attempts remain; a 401, a non-rate-limit 403, a 404 or a 5xx
\* response ends the call at once with the error of that response; a call
\* that used up its attempts ends with GitHubAPIError("Unexpected error").
C26_RetriesNetworkAndRateLimitOnly ==
    Called_make_request =>
        /\ AttemptsBounded
        /\ \A i \in 1..Len(TheCall.replies) :
              LET reply == TheCall.replies[i]
              IN  /\ RetriedAfter(i) =>
                        reply = ConnectionFailed \/ IsRateLimit(reply)
                  /\ ((reply = ConnectionFailed \/ IsRateLimit(reply))
                        /\ i < StopAfterAttempt) => RetriedAfter(i)
                  /\ (IsClientError(reply) \/ IsServerError(reply)) =>
                        /\ ~RetriedAfter(i)
                        /\ TheCall.pc = "raised"
                        /\ TheCall.exc = retry_request(TheCall.method, reply)
        /\ EndsWithGitHubAPIError
        /\ (Len(TheCall.replies) = StopAfterAttempt /\ TheCall.pc = "raised"
              /\ Retried(CHOOSE e \in retry_request(TheCall.method,
                                    TheCall.replies[StopAfterAttempt]) : TRUE)) =>
              TheCall.exc = {Raise("GitHubAPIError", "Unexpected error")}

\* A connection failure, then two rate-limit responses: the third attempt
\* was the last and the call raised GitHubAPIError("Unexpected error").
C26_Witness ==
    /\ Called_make_request
    /\ TheCall.replies = <<ConnectionFailed, Reply(403, TRUE), Reply(403, TRUE)>>
    /\ TheCall.pc = "raised"
    /\ TheCall.exc = {Raise("GitHubAPIError", "Unexpected error")}

(***************************************************************************)
(* main.py: GitHubIntegrationManager.  GitHubSpec: create_workflow and     *)
(* trigger_workflow are called with a pipeline's repo_url, under every     *)
(* setting of the token and of auto-creation, and the collaborators of     *)
(* gh.py answer in every way they can.  The frame of a call holds the      *)
(* collaborator calls it made so far (local).                              *)
(***************************************************************************)
\* The three classes of lines 46, 56 and 69.  Line 56 rebinds the name
\* GitHubIntegrationStrategy to the concrete class, so that is the class
\* NoIntegrationStrategy extends and the class lines 98 and 144 test.
AbstractStrategy == "GitHubIntegrationStrategy(ABC)"
GitHubStrategy == "GitHubIntegrationStrategy"
NoIntegration == "NoIntegrationStrategy"

\* The classes above each strategy class, itself included.
StrategyBases(class) ==
    IF class = NoIntegration
        THEN {NoIntegration, GitHubStrategy, AbstractStrategy}
    ELSE IF class = GitHubStrategy THEN {GitHubStrategy, AbstractStrategy}
    ELSE {class}

\* isinstance(strategy, GitHubIntegrationStrategy)
IsGitHubStrategy(strategy) == GitHubStrategy \in StrategyBases(strategy)

\* urlparse(repo_url): the hostname and the parts of path.strip("/").
Url(hostname, parts) == [hostname |-> hostname, parts |-> parts]

GitHubUrl == Url("github.com", <<"example", "repo">>)
GitLabUrl == Url("gitlab.com", <<"example", "repo">>)
ShortUrl == Url("github.com", <<"example">>)

RepoUrls == {GitHubUrl, GitLabUrl, ShortUrl}

\* GitHubIntegrationStrategy.can_handle
can_handle(strategy, repo_url) ==
    IF strategy = GitHubStrategy THEN repo_url.hostname = "github.com"
    ELSE ~(repo_url.hostname = "github.com")

\* get_strategy: the first of [GitHubIntegrationStrategy(),
\* NoIntegrationStrategy()] that can handle the url.
get_strategy(repo_url) ==
    IF can_handle(GitHubStrategy, repo_url) THEN GitHubStrategy
    ELSE IF can_handle(NoIntegration, repo_url) THEN NoIntegration
    ELSE NoIntegration

\* extract_repo_info: the Optional (owner, repo); None stands for the
\* ValueError of line 68.  The no-integration strategy returns the
\* hostname and the whole path.
extract_repo_info(strategy, repo_url) ==
    IF strategy = GitHubStrategy
        THEN IF Len(repo_url.parts) >= 2
                THEN {<<repo_url.hostname, repo_url.parts[1], repo_url.parts[2]>>}
                ELSE {}
        ELSE {<<repo_url.hostname, repo_url.hostname, repo_url.parts>>}

\* A call of a function of gh.py with its owner and repo arguments (the
\* workflow name and ref come from the pipeline in both calls).
GhCall(fn, info) == [fn |-> fn, host |-> info[1], owner |-> info[2], repo |-> info[3]]

ManagerCall(op, repo_url, token, auto_create) ==
    [op |-> op, pc |-> "started", repo_url |-> repo_url, token |-> token,
     auto_create |-> auto_create, strategy |-> {}, exists |-> {},
     local |-> << >>, outcome |-> ""]

GitHubInit ==
    /\ pipelines = << >>
    /\ nPipelines = 0
    /\ heap = << >>
    /\ runs = << >>
    /\ tasks = << >>
    /\ current = {}
    /\ clock = 0
    /\ requests = [r \in {Client} |-> Idle]
    /\ logger = {}

Manager == requests[Client]

Ends(frame, outcome) == [frame EXCEPT !.pc = "returned", !.outcome = outcome]

\* Lines 140-146 of trigger_workflow, 93-105 of create_workflow: the token
\* test, get_strategy, the isinstance test, extract_repo_info, and in
\* create_workflow the auto-create test.
ManagerStarts(op, repo_url, token, auto_create) ==
    /\ Manager.pc \in {"idle", "returned"}
    /\ LET frame == ManagerCall(op, repo_url, token, auto_create)
           strategy == get_strategy(repo_url)
           chosen == [frame EXCEPT !.strategy = {strategy}]
       IN  /\ requests' = [requests EXCEPT ![Client] =
                IF ~token THEN Ends(frame, "no_token")
                ELSE IF ~IsGitHubStrategy(strategy) THEN Ends(chosen, "not_github")
                ELSE IF extract_repo_info(strategy, repo_url) = {}
                    THEN Ends(chosen, "raised")
                ELSE IF op = "create_workflow" /\ ~auto_create
                    THEN Ends(chosen, "auto_create_disabled")
                ELSE [chosen EXCEPT !.pc = IF op = "create_workflow"
                                             THEN "create_and_merge"
                                             ELSE "workflow_exists"]]
           /\ logger' = logger \cup
                (IF op = "trigger_workflow" /\ token
                      /\ IsGitHubStrategy(strategy)
                      /\ extract_repo_info(strategy, repo_url) = {}
                    THEN trigger_workflow_logs("raised") ELSE {})
    /\ UNCHANGED <<pipelines, nPipelines, heap, runs, tasks, current, clock>>

Info(frame) ==
    CHOOSE info \in extract_repo_info(CHOOSE s \in frame.strategy : TRUE,
                                      frame.repo_url) : TRUE

AfterExists_Always(exists) == "dispatch"

\* Lines 150-152: the dispatch is reached only when workflow_exists
\* returned a true value.
AfterExists(exists) == IF exists = "true" THEN "dispatch" ELSE "returned"

\* Line 150: workflow_exists(...) returns true or false, or raises.
CallWorkflowExists(exists) ==
    /\ Manager.op = "trigger_workflow" /\ Manager.pc = "workflow_exists"
    /\ LET outcome == IF exists = "false" THEN "missing"
                      ELSE IF exists = "raises" THEN "raised" ELSE ""
       IN  /\ requests' = [requests EXCEPT
                 ![Client].local = Append(@, GhCall("workflow_exists", Info(Manager))),
                 ![Client].exists = {exists},
                 ![Client].pc = AfterExists(exists),
                 ![Client].outcome = outcome]
           /\ logger' = logger \cup trigger_workflow_logs(outcome)
    /\ UNCHANGED <<pipelines, nPipelines, heap, runs, tasks, current, clock>>

\* Lines 154-172: trigger_github_workflow(...) returns a status code (it
\* turns every exception into 500).
CallTriggerGithubWorkflow(status_code) ==
    /\ Manager.op = "trigger_workflow" /\ Manager.pc = "dispatch"
    /\ LET outcome == IF status_code = 204 THEN "status_204" ELSE "status_422"
       IN  /\ requests' = [requests EXCEPT
                 ![Client].local = Append(@, GhCall("trigger_github_workflow",
                                                    Info(Manager))),
                 ![Client].pc = "returned",
                 ![Client].outcome = outcome]
           /\ logger' = logger \cup trigger_workflow_logs(outcome)
    /\ UNCHANGED <<pipelines, nPipelines, heap, runs, tasks, current, clock>>

\* Lines 109-127: create_and_merge_workflow_pr(...) returns a bool or
\* raises.
CallCreateAndMerge(result) ==
    /\ Manager.op = "create_workflow" /\ Manager.pc = "create_and_merge"
    /\ requests' = [requests EXCEPT
          ![Client].local = Append(@, GhCall("create_and_merge_workflow_pr",
                                             Info(Manager))),
          ![Client].pc = "returned",
          ![Client].outcome = result]
    /\ UNCHANGED <<pipelines, nPipelines, heap, runs, tasks, current, clock,
                   logger>>

GitHubNext ==
    \/ \E op \in {"create_workflow", "trigger_workflow"}, repo_url \in RepoUrls,
          token \in BOOLEAN, auto_create \in BOOLEAN :
            ManagerStarts(op, repo_url, token, auto_create)
    \/ \E exists \in {"true", "false", "raises"} : CallWorkflowExists(exists)
    \/ \E status_code \in {204, 422, 500} : CallTriggerGithubWorkflow(status_code)
    \/ \E result \in {"created", "failed", "raised"} : CallCreateAndMerge(result)

GitHubSpec == GitHubInit /\ [][GitHubNext]_vars

InManager(op) == Manager.op = op

\* Where the manager's calls of fn stand among its collaborator calls.
CallsOf(fn) == {i \in 1..Len(Manager.local) : Manager.local[i].fn = fn}

\* C27: within one trigger_workflow, trigger_github_workflow is called at
\* most once, a call of workflow_exists with the same owner and repo stands
\* before it and returned true, and it is not called when no token is
\* configured or the existence check returned false or raised.
C27_ExistenceCheckBeforeDispatch ==
    InManager("trigger_workflow") =>
        /\ Cardinality(CallsOf("trigger_github_workflow")) <= 1
        /\ \A j \in CallsOf("trigger_github_workflow") :
              /\ \E i \in CallsOf("workflow_exists") :
                    /\ i < j
                    /\ Manager.local[i].owner = Manager.local[j].owner
                    /\ Manager.local[i].repo = Manager.local[j].repo
              /\ Manager.exists = {"true"}
              /\ Manager.token
        /\ (~Manager.token \/ Manager.exists \cap {"false", "raises"} # {}) =>
              CallsOf("trigger_github_workflow") = {}
        /\ Manager.pc = "dispatch" => Manager.exists = {"true"}

\* The existence check returned true and the dispatch was made, once.
C27_Witness ==
    /\ InManager("trigger_workflow")
    /\ Manager.pc = "returned"
    /\ Manager.outcome = "status_204"
    /\ Len(Manager.local) = 2
    /\ Manager.local[1].fn = "workflow_exists"
    /\ Manager.local[2].fn = "trigger_github_workflow"

\* C28: a call of create_workflow or trigger_workflow for a repo_url whose
\* host is not github.com chooses the no-integration strategy and makes no
\* call of create_and_merge_workflow_pr, workflow_exists or
\* trigger_github_workflow, and is never about to make one.
C28_NonGitHubSkipped ==
    (Manager.op \in {"create_workflow", "trigger_workflow"}
        /\ Manager.repo_url.hostname # "github.com") =>
            /\ Manager.strategy \subseteq {NoIntegration}
            /\ Manager.local = << >>
            /\ Manager.pc = "returned"

\* The PUT of thread r has built its object and not yet called the store.
Updating(r) ==
    requests[r].op = "update_pipeline" /\ requests[r].pc = "update_pipeline"

\* C30: only POST /pipelines adds an id to the store, and a fresh one, so an
\* id that was deleted stays absent; a PUT whose store write finds the id
\* gone answers 500 and stores nothing; and whenever the Pipeline stored
\* under an id changes, the new value is the object an in-flight PUT had
\* built (its steps, the same id, the created_at stored before), stamped
\* by the store.
C30_NoResurrection ==
    [][/\ \A id \in DOMAIN pipelines' \ DOMAIN pipelines :
             /\ id = PipelineId(nPipelines') /\ nPipelines' = nPipelines + 1
             /\ \E r \in Threads : Answered(r, "create_pipeline")
       /\ \A n \in 1..nPipelines :
             PipelineId(n) \notin DOMAIN pipelines =>
                 PipelineId(n) \notin DOMAIN pipelines'
       /\ \A r \in Threads :
             (Updating(r) /\ Answered(r, "update_pipeline")
                 /\ requests[r].pipeline_id \notin DOMAIN pipelines) =>
                 /\ \E resp \in requests'[r].response : resp.status_code = 500
                 /\ pipelines' = pipelines
       /\ \A id \in DOMAIN pipelines \cap DOMAIN pipelines' :
             pipelines'[id] # pipelines[id] =>
                 \E r \in Threads :
                     /\ Updating(r) /\ Answered(r, "update_pipeline")
                     /\ requests[r].pipeline_id = id
                     /\ \E u \in requests[r].local :
                           /\ pipelines'[id] = Restamped(u, clock')
                           /\ u.id = id
                           /\ u.created_at = pipelines[id].created_at]_vars

\* A PUT looked the pipeline up, a DELETE of the same id answered 204, and
\* then the PUT's write answered 500: the id is absent.
C30_Witness ==
    \E r, d \in Threads :
        /\ requests[r].op = "update_pipeline" /\ requests[r].pc = "responded"
        /\ StatusCode(r) = 500
        /\ requests[d].op = "delete_pipeline" /\ requests[d].pc = "responded"
        /\ StatusCode(d) = 204
        /\ nPipelines = 1
        /\ DOMAIN pipelines = {}

(***************************************************************************)
(* LifecycleSpec: one client creates, triggers, updates and deletes a      *)
(* pipeline (no GitHub token configured) while the loop runs what the      *)
(* triggers scheduled.  A handler that has started goes on to its          *)
(* response, and the loop keeps running ready coroutines.                  *)
(***************************************************************************)
\* The steps of the POST body, and the steps of the PUT body.
CreatedSteps == <<LintStep>>
UpdatedSteps == <<BuildStep, LintStep>>

HandlerGoesOn ==
    \/ PutPipelineUpdate(Client)
    \/ TriggerCreateRun(Client)
    \/ TriggerWorkflow(Client, "no_token")
    \/ TriggerCreateTask(Client)
    \/ TriggerReturn(Client)

LifecycleNext ==
    \/ PostPipelines(Client, CreatedSteps)
    \/ \E id \in ApiIds : PutPipelineGet(Client, id, UpdatedSteps)
    \/ \E id \in ApiIds : DeletePipeline(Client, id)
    \/ \E id \in ApiIds, on_loop \in BOOLEAN : TriggerGet(Client, id, on_loop)
    \/ HandlerGoesOn
    \/ LoopRuns

LifecycleSpec ==
    /\ ApiInit
    /\ [][LifecycleNext]_vars
    /\ WF_vars(HandlerGoesOn)
    /\ WF_vars(LoopRuns)

\* The steps whose start lines the Run's log holds, in order, are the first
\* steps of the pipeline the coroutine was handed.
ExecutesStepsOf(t) ==
    LET starts == SelectSeq(RunOf(t).logs, IsStartLine)
        steps == PipelineOf(tasks[t]).steps
    IN  /\ Len(starts) <= Len(steps)
        /\ \A i \in 1..Len(starts) : starts[i] = StartLine(steps[i], i - 1)

\* The coroutine is handed the Pipeline the store held when the trigger
\* looked it up, keeps it, executes its steps and, all of them being
\* valid, succeeds: whatever PUT and DELETE do to the store meanwhile.
StepsFixedAtTrigger ==
    /\ [][/\ \A t \in TaskIds : tasks'[t].pipeline = tasks[t].pipeline
          /\ Len(tasks') > Len(tasks) =>
                /\ requests[Client].local = get_pipeline(pipelines,
                                                requests[Client].pipeline_id)
                /\ tasks'[Len(tasks')].pipeline = requests[Client].local]_vars
    /\ [](\A t \in TaskIds :
            /\ ExecutesStepsOf(t)
            /\ RunOf(t).status # "failed"
            /\ RunOf(t).status = "succeeded" =>
                  RunOf(t).logs = FullLog(PipelineOf(tasks[t]).steps))

\* Every Run whose coroutine was scheduled reaches a terminal status.
ScheduledRunEnds ==
    \A t \in 1..MaxRuns :
        (t \in TaskIds) ~> (t \in TaskIds /\ RunOf(t).status \in Terminal)

\* Every Run a trigger created reaches a terminal status.
TriggeredRunEnds ==
    \A h \in 1..MaxRuns :
        (h \in DOMAIN heap) ~> (h \in DOMAIN heap /\ heap[h].status \in Terminal)

\* C29: a Run executes the steps its Pipeline had when it was triggered,
\* with the outcome those steps give, whatever update_pipeline and
\* delete_pipeline do while it is pending or running; and it reaches a
\* terminal status.
C29_RunsTriggerTimeSteps == StepsFixedAtTrigger /\ TriggeredRunEnds

====
